---- MODULE Spec2Model ----
(***************************************************************************)
(* A model of the circuit gadget layer of snarkVM: the ternary (select)    *)
(* gate on field elements, the bitwise XOR of circuit integers and the     *)
(* bit-decomposition gate of scalars, together with the declared cost      *)
(* (Metrics::count) and output mode (OutputMode::output_mode) of each      *)
(* gate, and the constraint environment the gates write into; and the      *)
(* div and shl.w instructions, which evaluate literals held in registers.  *)
(*                                                                         *)
(* Circuit values are linear combinations of wires over the base field,    *)
(* as in the library; the base field is scaled down to FieldModulus.       *)
(***************************************************************************)
EXTENDS Integers, Sequences, FiniteSets, TLC

VARIABLES
    circuit,    \* the constraint environment (Circuit): counters, assignment, constraints
    op,         \* the operation that ran last
    args,       \* the operands of that operation, as the test harness built them
    out,        \* the value the operation returned
    scope,      \* the Count measured inside the scope the operation ran in
    registers   \* the registers of the instruction being evaluated

vars == <<circuit, op, args, out, scope, registers>>

----------------------------------------------------------------------------
(* Bounds of the model.                                                    *)

\* The base field is Z_FieldModulus (the real one is a 253-bit prime).
FieldModulus == 3

\* Integer widths 2..MaxBits are enumerated exhaustively.
MaxBits == 2

\* At most MaxPrior wires or constants exist when a check starts.
MaxPrior == 1

\* The scalar field is Z_ScalarModulus (the real one is a 251-bit prime).
ScalarModulus == 5

\* from_bits is given at most MaxExcess bits beyond the size of a scalar.
MaxExcess == 2

----------------------------------------------------------------------------
(* Mode algebra.                                                           *)

Modes == {"Constant", "Public", "Private"}

FieldValues == 0 .. (FieldModulus - 1)

BoolToField(b) == IF b THEN 1 ELSE 0

\* A variable (wire) of the environment: <<mode, index>>.
Variable(mode, index) == <<mode, index>>

NoTerms == [v \in {} |-> 0]

\* LinearCombination: a constant offset, a weighted sum of variables (only
\* the nonzero weights are kept) and the value it is assigned.
LCConstant(k) ==
    [constant |-> k % FieldModulus, terms |-> NoTerms, value |-> k % FieldModulus]

LCVariable(var, value) ==
    [constant |-> 0, terms |-> (var :> 1), value |-> value % FieldModulus]

LCCoefficient(x, v) == IF v \in DOMAIN x.terms THEN x.terms[v] ELSE 0

LCAdd(x, y) ==
    LET dom == DOMAIN x.terms \cup DOMAIN y.terms
        coef(v) == (LCCoefficient(x, v) + LCCoefficient(y, v)) % FieldModulus
    IN  [constant |-> (x.constant + y.constant) % FieldModulus,
         terms    |-> [v \in {w \in dom : coef(w) # 0} |-> coef(v)],
         value    |-> (x.value + y.value) % FieldModulus]

LCScale(x, k) ==
    LET coef(v) == (x.terms[v] * k) % FieldModulus
    IN  [constant |-> (x.constant * k) % FieldModulus,
         terms    |-> [v \in {w \in DOMAIN x.terms : coef(w) # 0} |-> coef(v)],
         value    |-> (x.value * k) % FieldModulus]

LCNeg(x) == LCScale(x, FieldModulus - 1)

LCSub(x, y) == LCAdd(x, LCNeg(y))

IsConstant(x) == DOMAIN x.terms = {}

IsPublic(x) ==
    /\ x.constant = 0
    /\ Cardinality(DOMAIN x.terms) = 1
    /\ \A v \in DOMAIN x.terms : v[1] = "Public" /\ x.terms[v] = 1

\* eject_mode of a single linear combination.
EjectMode(x) ==
    IF IsConstant(x) THEN "Constant"
    ELSE IF IsPublic(x) THEN "Public"
    ELSE "Private"

EjectValue(x) == x.value

\* eject_mode of a list of circuits (the bits of an integer or scalar).
RECURSIVE EjectModeOfBits(_)
EjectModeOfBits(bits) ==
    IF bits = <<>> THEN "Constant"
    ELSE LET head == EjectMode(bits[1])
             rest == EjectModeOfBits(Tail(bits))
         IN  IF head = "Constant" THEN rest
             ELSE IF rest = "Constant" THEN head
             ELSE IF head = "Public" /\ rest = "Public" THEN "Public"
             ELSE "Private"

\* CircuitType: the descriptor the output-mode oracles read: the mode and,
\* in the Constant variant, the circuit itself.
CircuitTypeFrom(circuitValue, mode) ==
    IF mode = "Constant"
    THEN [variant |-> "Constant", mode |-> "Constant", circuit |-> circuitValue]
    ELSE [variant |-> mode, mode |-> mode, circuit |-> <<>>]

----------------------------------------------------------------------------
(* Constraint fabric (the Circuit environment).                            *)

EmptyCircuit == [constants |-> 0, public |-> <<>>, private |-> <<>>, constraints |-> <<>>]

\* Count of the environment: (constants, public, private, constraints).
CountOf(env) ==
    [constants   |-> env.constants,
     public      |-> Len(env.public),
     private     |-> Len(env.private),
     constraints |-> Len(env.constraints)]

CountIs(nc, npub, npriv, ncons) ==
    [constants |-> nc, public |-> npub, private |-> npriv, constraints |-> ncons]

\* What a scope measures: the Count added between its opening and its end.
ScopeCount(before, after) ==
    CountIs(after.constants - before.constants,
            Len(after.public) - Len(before.public),
            Len(after.private) - Len(before.private),
            Len(after.constraints) - Len(before.constraints))

EnvSize(env) == env.constants + Len(env.public) + Len(env.private)

\* E::new_variable: a Constant only bumps the counter; a Public or Private
\* variable is appended to the assignment.
NewVariable(env, mode, value) ==
    IF mode = "Constant"
    THEN [env |-> [env EXCEPT !.constants = @ + 1], out |-> LCConstant(value)]
    ELSE IF mode = "Public"
    THEN [env |-> [env EXCEPT !.public = Append(@, value % FieldModulus)],
          out |-> LCVariable(Variable("Public", Len(env.public) + 1), value)]
    ELSE [env |-> [env EXCEPT !.private = Append(@, value % FieldModulus)],
          out |-> LCVariable(Variable("Private", Len(env.private) + 1), value)]

\* E::enforce(a, b, c): appends the constraint a * b = c, unless the three
\* are all constants (nothing is added to the constraint system then).
Enforce(env, a, b, c) ==
    IF IsConstant(a) /\ IsConstant(b) /\ IsConstant(c)
    THEN env
    ELSE [env EXCEPT !.constraints = Append(@, [a |-> a, b |-> b, c |-> c])]

\* E::assert_eq(a, b) lowers to a * 1 = b; E::assert(b) to b * 1 = 1.
AssertEq(env, a, b) == Enforce(env, a, LCConstant(1), b)

AssertTrue(env, b) == Enforce(env, b, LCConstant(1), LCConstant(1))

\* The value of a linear combination under an assignment of the wires.
RECURSIVE SumTerms(_, _, _, _)
SumTerms(x, dom, pub, priv) ==
    IF dom = {} THEN 0
    ELSE LET v == CHOOSE w \in dom : TRUE
             val == IF v[1] = "Public" THEN pub[v[2]] ELSE priv[v[2]]
         IN  (x.terms[v] * val + SumTerms(x, dom \ {v}, pub, priv)) % FieldModulus

Eval(x, pub, priv) == (x.constant + SumTerms(x, DOMAIN x.terms, pub, priv)) % FieldModulus

ConstraintHolds(k, pub, priv) ==
    (Eval(k.a, pub, priv) * Eval(k.b, pub, priv)) % FieldModulus = Eval(k.c, pub, priv)

\* Circuit::is_satisfied under a given assignment.
SatisfiedUnder(env, pub, priv) ==
    \A i \in 1 .. Len(env.constraints) : ConstraintHolds(env.constraints[i], pub, priv)

IsSatisfied(env) == SatisfiedUnder(env, env.public, env.private)

----------------------------------------------------------------------------
(* Boolean gates. A Boolean is a linear combination whose value is 0 or 1. *)
(* Each operator folds when an operand is a constant and otherwise         *)
(* allocates one private witness and enforces one constraint; these are    *)
(* the counts the tests of from_bits.rs (size_in_bits private wires and    *)
(* size_in_bits + 1 constraints, one more constraint per excess bit) and   *)
(* of xor.rs (nothing for a Constant operand) assert.                      *)

BooleanConstant(b) == LCConstant(BoolToField(b))

IsTrue(b) == EjectValue(b) = 1

\* Boolean::new(mode, value): allocates the variable and enforces (1 - a) * a = 0.
NewBoolean(env, mode, value) ==
    LET v == NewVariable(env, mode, BoolToField(value))
    IN  [env |-> Enforce(v.env, LCSub(LCConstant(1), v.out), v.out, LCConstant(0)),
         out |-> v.out]

\* !a : 1 - a.
Not(a) == LCSub(LCConstant(1), a)

\* a & b : folds when either side is a constant, else one witness with a * b = out.
BooleanAnd(env, a, b) ==
    IF IsConstant(a) THEN [env |-> env, out |-> IF IsTrue(a) THEN b ELSE a]
    ELSE IF IsConstant(b) THEN [env |-> env, out |-> IF IsTrue(b) THEN a ELSE b]
    ELSE LET w == NewVariable(env, "Private", a.value * b.value)
         IN  [env |-> Enforce(w.env, a, b, w.out), out |-> w.out]

\* a | b : folds when either side is a constant, else one witness with
\* (1 - a) * (1 - b) = 1 - out.
BooleanOr(env, a, b) ==
    IF IsConstant(a) THEN [env |-> env, out |-> IF IsTrue(a) THEN a ELSE b]
    ELSE IF IsConstant(b) THEN [env |-> env, out |-> IF IsTrue(b) THEN b ELSE a]
    ELSE LET w == NewVariable(env, "Private", BoolToField(IsTrue(a) \/ IsTrue(b)))
         IN  [env |-> Enforce(w.env, Not(a), Not(b), Not(w.out)), out |-> w.out]

\* a ^ b : folds when either side is a constant, else one witness with
\* (a + a) * b = a + b - out.
BooleanXor(env, a, b) ==
    IF IsConstant(a) THEN [env |-> env, out |-> IF IsTrue(a) THEN Not(b) ELSE b]
    ELSE IF IsConstant(b) THEN [env |-> env, out |-> IF IsTrue(b) THEN Not(a) ELSE a]
    ELSE LET w == NewVariable(env, "Private", BoolToField(IsTrue(a) # IsTrue(b)))
         IN  [env |-> Enforce(w.env, LCAdd(a, a), b, LCSub(LCAdd(a, b), w.out)),
              out |-> w.out]

\* Boolean::ternary(condition, first, second).
BooleanTernary(env, condition, first, second) ==
    IF IsConstant(condition)
    THEN [env |-> env, out |-> IF IsTrue(condition) THEN first ELSE second]
    ELSE IF IsConstant(first) /\ IsConstant(second)
    THEN [env |-> env,
          out |-> IF IsTrue(first) /\ IsTrue(second) THEN first
                  ELSE IF IsTrue(first) THEN condition
                  ELSE IF IsTrue(second) THEN Not(condition)
                  ELSE second]
    ELSE IF IsConstant(first)
    THEN IF IsTrue(first) THEN BooleanOr(env, condition, second)
         ELSE BooleanAnd(env, Not(condition), second)
    ELSE IF IsConstant(second)
    THEN IF IsTrue(second) THEN BooleanOr(env, Not(condition), first)
         ELSE BooleanAnd(env, condition, first)
    ELSE LET w == NewVariable(env, "Private",
                              IF IsTrue(condition) THEN first.value ELSE second.value)
         IN  [env |-> Enforce(w.env, condition, LCSub(first, second), LCSub(w.out, second)),
              out |-> w.out]

----------------------------------------------------------------------------
(* Field elements.                                                         *)

\* Field::new(mode, value).
NewField(env, mode, value) == NewVariable(env, mode, value)

\* Field::from_boolean: the same linear combination, read as a field element.
FromBoolean(b) == b

\* a * b : scales when either side is a constant, else one witness with a * b = out.
FieldMul(env, a, b) ==
    IF IsConstant(a) THEN [env |-> env, out |-> LCScale(b, a.value)]
    ELSE IF IsConstant(b) THEN [env |-> env, out |-> LCScale(a, b.value)]
    ELSE LET w == NewVariable(env, "Private", a.value * b.value)
         IN  [env |-> Enforce(w.env, a, b, w.out), out |-> w.out]

\* a + b : a linear combination, never a constraint.
FieldAdd(a, b) == LCAdd(a, b)

----------------------------------------------------------------------------
(* Ternary gate on field elements (ternary.rs).                            *)

\* A wrong right-hand side: condition * (first - second) = witness - first.
TernaryEnforce_wrong_rhs(env, condition, first, second, witness) ==
    Enforce(env, condition, LCSub(first, second), LCSub(witness, first))

\* The constraint of the general case: condition * (first - second) = witness - second.
TernaryEnforce(env, condition, first, second, witness) ==
    Enforce(env, condition, LCSub(first, second), LCSub(witness, second))

\* The branches exchanged.
Ternary_swapped(env, condition, first, second) ==
    IF IsConstant(condition)
    THEN [env |-> env, out |-> IF IsTrue(condition) THEN second ELSE first]
    ELSE LET witness == NewField(env, "Private",
                                 IF IsTrue(condition) THEN second.value ELSE first.value)
         IN  [env |-> TernaryEnforce(witness.env, condition, second, first, witness.out),
              out |-> witness.out]

\* No shortcut for a Constant condition: always a witness and a constraint.
Ternary_no_constant_shortcut(env, condition, first, second) ==
    LET witness == NewField(env, "Private",
                            IF IsTrue(condition) THEN first.value ELSE second.value)
    IN  [env |-> TernaryEnforce(witness.env, condition, first, second, witness.out),
         out |-> witness.out]

\* No linear branch for two Constant operands: a witness whenever the condition
\* is not Constant.
Ternary_no_linear_branch(env, condition, first, second) ==
    IF IsConstant(condition)
    THEN [env |-> env, out |-> IF IsTrue(condition) THEN first ELSE second]
    ELSE LET witness == NewField(env, "Private",
                                 IF IsTrue(condition) THEN first.value ELSE second.value)
         IN  [env |-> TernaryEnforce(witness.env, condition, first, second, witness.out),
              out |-> witness.out]

\* Field::ternary(condition, first, second).
Ternary(env, condition, first, second) ==
    IF IsConstant(condition)
    THEN [env |-> env, out |-> IF IsTrue(condition) THEN first ELSE second]
    ELSE IF IsConstant(first) /\ IsConstant(second)
    THEN LET not_condition == FromBoolean(Not(condition))
             cond == FromBoolean(condition)
             left == FieldMul(env, cond, first)
             right == FieldMul(left.env, not_condition, second)
         IN  [env |-> right.env, out |-> FieldAdd(left.out, right.out)]
    ELSE LET witness == NewField(env, "Private",
                                 IF IsTrue(condition) THEN first.value ELSE second.value)
         IN  [env |-> TernaryEnforce(witness.env, condition, first, second, witness.out),
              out |-> witness.out]

\* The declared cost without the two arms for Constant branches.
TernaryCount_ignores_branches(case) ==
    IF case[1] = "Constant" THEN CountIs(0, 0, 0, 0) ELSE CountIs(0, 0, 1, 1)

\* Metrics::count for Ternary: the declared cost of a mode triple.
TernaryCount(case) ==
    IF \/ case[1] = "Constant"
       \/ (case[1] = "Public" /\ case[2] = "Constant" /\ case[3] = "Constant")
       \/ (case[1] = "Private" /\ case[2] = "Constant" /\ case[3] = "Constant")
    THEN CountIs(0, 0, 0, 0)
    ELSE CountIs(0, 0, 1, 1)

\* A join of the branch modes instead of the mode of the selected branch.
TernaryOutputMode_join(parameter) ==
    IF parameter[1].mode = "Constant"
    THEN IF parameter[2] = parameter[3] THEN parameter[2] ELSE "Private"
    ELSE "Private"

\* The second branch taken when the condition does not carry its circuit.
TernaryOutputMode_defaults(parameter) ==
    IF parameter[1].mode = "Constant"
    THEN IF parameter[1].variant = "Constant" /\ IsTrue(parameter[1].circuit)
         THEN parameter[2] ELSE parameter[3]
    ELSE "Private"

\* OutputMode::output_mode for Ternary: the declared mode of the result, or
\* "halt" when the Constant condition is not given with its circuit.
TernaryOutputMode(parameter) ==
    IF parameter[1].mode = "Constant"
    THEN IF parameter[1].variant = "Constant"
         THEN IF IsTrue(parameter[1].circuit) THEN parameter[2] ELSE parameter[3]
         ELSE "halt"
    ELSE "Private"

----------------------------------------------------------------------------
(* Circuit integers and their bitwise XOR (xor.rs).                        *)

\* The width of the u8 and i8 types.
ByteBits == 8

RECURSIVE Pow2(_)
Pow2(n) == IF n = 0 THEN 1 ELSE 2 * Pow2(n - 1)

\* An integer type I: its signedness and I::BITS. Widths up to MaxBits are
\* enumerated exhaustively, the 8-bit types on the values of SampleBytes.
IntegerTypes == [signed : BOOLEAN, bits : (2 .. MaxBits) \cup {ByteBits}]

MinOf(type) == IF type.signed THEN -Pow2(type.bits - 1) ELSE 0

MaxOf(type) == IF type.signed THEN Pow2(type.bits - 1) - 1 ELSE Pow2(type.bits) - 1

\* The two's complement bit pattern of a value, as a natural number, and back.
ToPattern(value, type) == IF value < 0 THEN value + Pow2(type.bits) ELSE value

FromPattern(u, type) ==
    IF type.signed /\ u >= Pow2(type.bits - 1) THEN u - Pow2(type.bits) ELSE u

SampleBytes == {0, 5, 127, 128, 255}

IntegerValues(type) ==
    IF type.bits <= MaxBits THEN MinOf(type) .. MaxOf(type)
    ELSE {FromPattern(u, type) : u \in SampleBytes}

\* The native operators of the primitive integer types: a ^ b and !a.
RECURSIVE XorPattern(_, _)
XorPattern(x, y) ==
    IF x = 0 /\ y = 0 THEN 0
    ELSE ((x + y) % 2) + 2 * XorPattern(x \div 2, y \div 2)

NativeXor(a, b, type) == FromPattern(XorPattern(ToPattern(a, type), ToPattern(b, type)), type)

NativeNot(a, type) == IF type.signed THEN -1 - a ELSE MaxOf(type) - a

\* Integer::new(mode, value): one Boolean per bit, least significant first.
\* st holds the environment and the bits allocated so far.
RECURSIVE NewBits(_, _, _, _)
NewBits(st, mode, pattern, n) ==
    IF Len(st.out) = n THEN st
    ELSE LET bit == NewBoolean(st.env, mode, (pattern \div Pow2(Len(st.out))) % 2 = 1)
         IN  NewBits([env |-> bit.env, out |-> Append(st.out, bit.out)], mode, pattern, n)

NewInteger(env, mode, value, type) ==
    NewBits([env |-> env, out |-> <<>>], mode, ToPattern(value, type), type.bits)

\* Integer::eject_value: the bits read as a two's complement number.
RECURSIVE PatternOfBits(_)
PatternOfBits(bits) ==
    IF bits = <<>> THEN 0 ELSE EjectValue(bits[1]) + 2 * PatternOfBits(Tail(bits))

EjectInteger(bits_le, type) == FromPattern(PatternOfBits(bits_le), type)

\* A bitwise OR of the bits in place of the XOR.
RECURSIVE BitXorAssign_or(_, _, _)
BitXorAssign_or(st, a, b) ==
    IF Len(st.out) = Len(a) THEN st
    ELSE LET bit == BooleanOr(st.env, a[Len(st.out) + 1], b[Len(st.out) + 1])
         IN  BitXorAssign_or([env |-> bit.env, out |-> Append(st.out, bit.out)], a, b)

\* The least significant bit copied from self instead of XOR-ed.
RECURSIVE BitXorAssign_skips_first(_, _, _)
BitXorAssign_skips_first(st, a, b) ==
    IF Len(st.out) = Len(a) THEN st
    ELSE LET bit == IF st.out = <<>> THEN [env |-> st.env, out |-> a[1]]
                    ELSE BooleanXor(st.env, a[Len(st.out) + 1], b[Len(st.out) + 1])
         IN  BitXorAssign_skips_first([env |-> bit.env, out |-> Append(st.out, bit.out)], a, b)

\* bitxor_assign: bits_le of a zipped with bits_le of b, each pair XOR-ed in
\* turn; st holds the environment and the bits collected so far.
RECURSIVE BitXorAssign(_, _, _)
BitXorAssign(st, a, b) ==
    IF Len(st.out) = Len(a) THEN st
    ELSE LET bit == BooleanXor(st.env, a[Len(st.out) + 1], b[Len(st.out) + 1])
         IN  BitXorAssign([env |-> bit.env, out |-> Append(st.out, bit.out)], a, b)

\* bitxor: the output starts as a clone of self and is XOR-assigned other.
BitXor(env, a, b) == BitXorAssign([env |-> env, out |-> <<>>], a, b)

\* The full per-bit cost whenever an operand is not Constant.
BitXorCount_per_bit(case, type) ==
    IF case[1] = "Constant" /\ case[2] = "Constant"
    THEN CountIs(0, 0, 0, 0)
    ELSE CountIs(0, 0, type.bits, type.bits)

\* Metrics::count for BitXor: the declared cost of a mode pair.
BitXorCount(case, type) ==
    IF case[1] = "Constant" \/ case[2] = "Constant"
    THEN CountIs(0, 0, 0, 0)
    ELSE CountIs(0, 0, type.bits, type.bits)

IsZeroInteger(bits_le, type) == EjectInteger(bits_le, type) = 0

\* The zero test forgotten: a Constant operand always degrades to Private.
BitXorOutputMode_no_zero_test(case) ==
    IF case[1].mode = "Constant" /\ case[2].mode = "Constant" THEN "Constant"
    ELSE "Private"

\* The strongest operand mode instead of Private when neither is Constant.
BitXorOutputMode_join(case) ==
    IF case[1].mode = "Constant" /\ case[2].mode = "Constant" THEN "Constant"
    ELSE IF case[1].mode = "Private" \/ case[2].mode = "Private" THEN "Private"
    ELSE IF case[1].mode = "Constant" \/ case[2].mode = "Constant"
    THEN BitXorOutputMode_no_zero_test(case)
    ELSE "Public"

\* Only a Constant first operand is tested for zero.
BitXorOutputMode_first_only(case) ==
    IF case[1].mode = "Constant" /\ case[2].mode = "Constant" THEN "Constant"
    ELSE IF case[1].mode = "Constant"
    THEN IF case[1].variant = "Constant"
         THEN IF IsZeroInteger(case[1].circuit.bits_le, case[1].circuit.type)
              THEN case[2].mode ELSE "Private"
         ELSE "halt"
    ELSE "Private"

\* OutputMode::output_mode for BitXor: the declared mode of the result, or
\* "halt" when a Constant operand is not given with its circuit. The first
\* pattern that matches decides, as in the match.
BitXorOutputMode(case) ==
    IF case[1].mode = "Constant" /\ case[2].mode = "Constant" THEN "Constant"
    ELSE IF case[1].mode = "Constant"
    THEN IF case[1].variant = "Constant"
         THEN IF IsZeroInteger(case[1].circuit.bits_le, case[1].circuit.type)
              THEN case[2].mode ELSE "Private"
         ELSE "halt"
    ELSE IF case[2].mode = "Constant"
    THEN IF case[2].variant = "Constant"
         THEN IF IsZeroInteger(case[2].circuit.bits_le, case[2].circuit.type)
              THEN case[1].mode ELSE "Private"
         ELSE "halt"
    ELSE "Private"

----------------------------------------------------------------------------
(* Scalars and their construction from bits (from_bits.rs).                *)

\* The number of bits of a positive number.
RECURSIVE BitLength(_)
BitLength(n) == IF n = 0 THEN 0 ELSE 1 + BitLength(n \div 2)

\* ScalarField::size_in_bits and size_in_data_bits (the capacity).
SizeInBits == BitLength(ScalarModulus)

SizeInDataBits == SizeInBits - 1

\* to_bits_le of a native number on n bits.
NativeBitsLE(value, n) == [i \in 1 .. n |-> (value \div Pow2(i - 1)) % 2 = 1]

\* -ScalarField::one(), and its bits.
ModulusMinusOne == ScalarModulus - 1

ModulusMinusOneBitsLE == NativeBitsLE(ModulusMinusOne, SizeInBits)

\* The first excess bit left out of the OR chain.
RECURSIVE FoldExcessBits_skips_first(_, _, _)
FoldExcessBits_skips_first(st, bits_le, i) ==
    IF i > Len(bits_le) THEN st
    ELSE FoldExcessBits_skips_first(
             IF i = SizeInBits + 1 THEN st ELSE BooleanOr(st.env, st.out, bits_le[i]),
             bits_le, i + 1)

\* Every excess bit asserted to be zero on its own, without the OR chain.
RECURSIVE FoldExcessBits_asserts_each(_, _, _)
FoldExcessBits_asserts_each(st, bits_le, i) ==
    IF i > Len(bits_le) THEN st
    ELSE FoldExcessBits_asserts_each(
             [env |-> IF i < Len(bits_le) THEN AssertEq(st.env, LCConstant(0), bits_le[i])
                      ELSE st.env,
              out |-> bits_le[i]],
             bits_le, i + 1)

\* The OR of the excess bits, folded from Boolean::constant(false);
\* st holds the environment and the accumulator, i the next bit to read.
RECURSIVE FoldExcessBits(_, _, _)
FoldExcessBits(st, bits_le, i) ==
    IF i > Len(bits_le) THEN st
    ELSE FoldExcessBits(BooleanOr(st.env, st.out, bits_le[i]), bits_le, i + 1)

\* The two arms of the comparison exchanged.
RECURSIVE FoldIsLess_arms_exchanged(_, _, _)
FoldIsLess_arms_exchanged(st, bits_le, i) ==
    IF i > Len(bits_le) THEN st
    ELSE FoldIsLess_arms_exchanged(
             IF ModulusMinusOneBitsLE[i]
             THEN BooleanTernary(st.env, bits_le[i], bits_le[i], st.out)
             ELSE BooleanTernary(st.env, Not(bits_le[i]), bits_le[i], st.out),
             bits_le, i + 1)

\* The comparison against modulus - 1, folded from Boolean::constant(false)
\* over the pairs (modulus_minus_one_bit, other_bit), least significant first.
RECURSIVE FoldIsLess(_, _, _)
FoldIsLess(st, bits_le, i) ==
    IF i > Len(bits_le) THEN st
    ELSE FoldIsLess(IF ModulusMinusOneBitsLE[i]
                    THEN BooleanTernary(st.env, Not(bits_le[i]), bits_le[i], st.out)
                    ELSE BooleanTernary(st.env, bits_le[i], bits_le[i], st.out),
                    bits_le, i + 1)

\* The bits resized up but never cut down to size_in_bits.
SanitizedBits_not_truncated(bits_le) ==
    IF Len(bits_le) >= SizeInBits THEN bits_le
    ELSE [i \in 1 .. SizeInBits |->
             IF i <= Len(bits_le) THEN bits_le[i] ELSE BooleanConstant(FALSE)]

\* The sanitized list of bits: the first size_in_bits bits, resized up with
\* Boolean::constant(false).
SanitizedBits(bits_le) ==
    [i \in 1 .. SizeInBits |-> IF i <= Len(bits_le) THEN bits_le[i] ELSE BooleanConstant(FALSE)]

\* zip_eq panics when its two sides differ in length.
ZipEqHalts(a, b) == Len(a) # Len(b)

\* The ways from_bits_le can panic: the slice of the excess bits starting
\* beyond the end of the list, and zip_eq over lists of different lengths.
FromBitsLEHalts(bits_le) ==
    \/ Len(bits_le) > SizeInBits /\ SizeInBits > Len(bits_le)
    \/ Len(bits_le) > SizeInDataBits
          /\ ZipEqHalts(ModulusMinusOneBitsLE, SanitizedBits(bits_le))

\* The comparison chain starts from a freshly allocated flag instead of
\* Boolean::constant(false).
FromBitsLE_fresh_flag(env, bits_le) ==
    LET num_bits == Len(bits_le)
        excess == IF num_bits > SizeInBits
                  THEN LET should_be_zero ==
                               FoldExcessBits([env |-> env, out |-> BooleanConstant(FALSE)],
                                              bits_le, SizeInBits + 1)
                       IN  AssertEq(should_be_zero.env, LCConstant(0), should_be_zero.out)
                  ELSE env
        sanitized == SanitizedBits(bits_le)
        checked == IF num_bits > SizeInDataBits
                   THEN LET modulus_minus_one_less_than_bits ==
                                FoldIsLess(NewBoolean(excess, "Private", FALSE), sanitized, 1)
                        IN  AssertTrue(modulus_minus_one_less_than_bits.env,
                                       Not(modulus_minus_one_less_than_bits.out))
                   ELSE excess
    IN  [env |-> checked, out |-> [bits_le |-> sanitized]]

\* The excess bits dropped without being checked.
FromBitsLE_no_excess_check(env, bits_le) ==
    LET num_bits == Len(bits_le)
        sanitized == SanitizedBits(bits_le)
        checked == IF num_bits > SizeInDataBits
                   THEN LET modulus_minus_one_less_than_bits ==
                                FoldIsLess([env |-> env, out |-> BooleanConstant(FALSE)],
                                           sanitized, 1)
                        IN  AssertTrue(modulus_minus_one_less_than_bits.env,
                                       Not(modulus_minus_one_less_than_bits.out))
                   ELSE env
    IN  [env |-> checked, out |-> [bits_le |-> sanitized]]

\* The comparison against modulus - 1 made only when there are excess bits.
FromBitsLE_checks_only_excess(env, bits_le) ==
    LET num_bits == Len(bits_le)
        excess == IF num_bits > SizeInBits
                  THEN LET should_be_zero ==
                               FoldExcessBits([env |-> env, out |-> BooleanConstant(FALSE)],
                                              bits_le, SizeInBits + 1)
                       IN  AssertEq(should_be_zero.env, LCConstant(0), should_be_zero.out)
                  ELSE env
        sanitized == SanitizedBits(bits_le)
        checked == IF num_bits > SizeInBits
                   THEN LET modulus_minus_one_less_than_bits ==
                                FoldIsLess([env |-> excess, out |-> BooleanConstant(FALSE)],
                                           sanitized, 1)
                        IN  AssertTrue(modulus_minus_one_less_than_bits.env,
                                       Not(modulus_minus_one_less_than_bits.out))
                   ELSE excess
    IN  [env |-> checked, out |-> [bits_le |-> sanitized]]

\* The comparison chain starts from Boolean::constant(true): the candidate has
\* to be strictly below modulus - 1.
FromBitsLE_strict(env, bits_le) ==
    LET num_bits == Len(bits_le)
        excess == IF num_bits > SizeInBits
                  THEN LET should_be_zero ==
                               FoldExcessBits([env |-> env, out |-> BooleanConstant(FALSE)],
                                              bits_le, SizeInBits + 1)
                       IN  AssertEq(should_be_zero.env, LCConstant(0), should_be_zero.out)
                  ELSE env
        sanitized == SanitizedBits(bits_le)
        checked == IF num_bits > SizeInDataBits
                   THEN LET modulus_minus_one_less_than_bits ==
                                FoldIsLess([env |-> excess, out |-> BooleanConstant(TRUE)],
                                           sanitized, 1)
                        IN  AssertTrue(modulus_minus_one_less_than_bits.env,
                                       Not(modulus_minus_one_less_than_bits.out))
                   ELSE excess
    IN  [env |-> checked, out |-> [bits_le |-> sanitized]]

\* The range check applied whatever the number of bits given.
FromBitsLE_always_checked(env, bits_le) ==
    LET num_bits == Len(bits_le)
        excess == IF num_bits > SizeInBits
                  THEN LET should_be_zero ==
                               FoldExcessBits([env |-> env, out |-> BooleanConstant(FALSE)],
                                              bits_le, SizeInBits + 1)
                       IN  AssertEq(should_be_zero.env, LCConstant(0), should_be_zero.out)
                  ELSE env
        sanitized == SanitizedBits(bits_le)
        modulus_minus_one_less_than_bits ==
            FoldIsLess([env |-> excess, out |-> BooleanConstant(FALSE)], sanitized, 1)
    IN  [env |-> AssertTrue(modulus_minus_one_less_than_bits.env,
                            Not(modulus_minus_one_less_than_bits.out)),
         out |-> [bits_le |-> sanitized]]

\* Scalar::from_bits_le(bits_le).
FromBitsLE(env, bits_le) ==
    LET num_bits == Len(bits_le)
        excess == IF num_bits > SizeInBits
                  THEN LET should_be_zero ==
                               FoldExcessBits([env |-> env, out |-> BooleanConstant(FALSE)],
                                              bits_le, SizeInBits + 1)
                       IN  AssertEq(should_be_zero.env, LCConstant(0), should_be_zero.out)
                  ELSE env
        sanitized == SanitizedBits(bits_le)
        checked == IF num_bits > SizeInDataBits
                   THEN LET modulus_minus_one_less_than_bits ==
                                FoldIsLess([env |-> excess, out |-> BooleanConstant(FALSE)],
                                           sanitized, 1)
                        IN  AssertTrue(modulus_minus_one_less_than_bits.env,
                                       Not(modulus_minus_one_less_than_bits.out))
                   ELSE excess
    IN  [env |-> checked, out |-> [bits_le |-> sanitized]]

Reverse(seq) == [i \in 1 .. Len(seq) |-> seq[Len(seq) + 1 - i]]

\* The bits handed to from_bits_le without being reversed.
FromBitsBE_not_reversed(env, bits_be) == FromBitsLE(env, bits_be)

\* Scalar::from_bits_be(bits_be).
FromBitsBE(env, bits_be) == FromBitsLE(env, Reverse(bits_be))

----------------------------------------------------------------------------
(* Instructions on registers (div.rs, shl_wrapped.rs).                     *)

\* The registers of the instructions: two operands and a destination.
RegisterNames == {"r0", "r1", "r2"}

\* The values a register holds: nothing yet, a literal, or a definition.
Unassigned == [variant |-> "Unassigned"]

ValueLiteral(literal) == [variant |-> "Literal", literal |-> literal]

ValueDefinition(name) == [variant |-> "Definition", name |-> name]

\* Literals: integers of a type, field elements, and the other kinds.
LiteralInteger(type, value, mode) ==
    [kind |-> "integer", type |-> type, value |-> value, mode |-> mode]

LiteralField(value, mode) == [kind |-> "field", value |-> value, mode |-> mode]

LiteralOther(kind, mode) == [kind |-> kind, mode |-> mode]

\* The integer literal types I8 .. U128: their widths are powers of two; the
\* two smallest widths stand for all of them.
LiteralIntegerTypes == [signed : BOOLEAN, bits : {ByteBits, 2 * ByteBits}]

\* The types of a shift amount: U8, U16 and U32.
MagnitudeTypes == [signed : {FALSE}, bits : {ByteBits, 2 * ByteBits, 4 * ByteBits}]

\* P::halt(message) and a returned literal.
Halt(message) == [halted |-> TRUE, message |-> message]

Return(literal) == [halted |-> FALSE, literal |-> literal]

\* format!("{name} is not a literal").
NotALiteral(name) == <<name, " is not a literal">>

\* format!("Invalid '{}' instruction", Self::opcode()).
InvalidInstruction(opcode) == <<"Invalid '", opcode, "' instruction">>

\* The outcome of evaluate: the registers afterwards and the halt, if any.
Halted(regs, message) ==
    [registers |-> regs, halted |-> TRUE, message |-> message]

Assigned(regs, destination, literal) ==
    [registers |-> [regs EXCEPT ![destination] = ValueLiteral(literal)],
     halted |-> FALSE, message |-> <<>>]

Abs(x) == IF x < 0 THEN -x ELSE x

\* The quotient of the primitive integers: rounded towards zero.
NativeDiv(a, b) ==
    IF (a < 0) = (b < 0) THEN Abs(a) \div Abs(b) ELSE -(Abs(a) \div Abs(b))

\* Integer::div_checked on two integers of one type; mode is the mode of
\* the quotient.
DivChecked(a, b, mode) ==
    IF b.value = 0 THEN Halt(<<"Division by zero error">>)
    ELSE IF a.type.signed /\ a.value = MinOf(a.type) /\ b.value = -1
    THEN Halt(<<"Overflow or underflow on division of two integer constants">>)
    ELSE Return(LiteralInteger(a.type, NativeDiv(a.value, b.value), mode))

\* The modes the quotient of two integers may have: Constant for two
\* Constants; the sources do not say which otherwise.
DivCheckedModes(mode_a, mode_b) ==
    IF mode_a = "Constant" /\ mode_b = "Constant" THEN {"Constant"}
    ELSE {"Public", "Private"}

\* The divisors of field elements used: those with an inverse.
HasInverse(b) == \E i \in FieldValues : (b * i) % FieldModulus = 1

\* a / b on field elements.
FieldDiv(a, b) ==
    LET inverse == CHOOSE i \in FieldValues : (b * i) % FieldModulus = 1
    IN  (a * inverse) % FieldModulus

\* A lattice join in place of the table: Public for two Public operands.
FieldDivMode_join(mode_a, mode_b) ==
    IF mode_a = "Private" \/ mode_b = "Private" THEN "Private"
    ELSE IF mode_a = "Public" \/ mode_b = "Public" THEN "Public"
    ELSE "Constant"

\* FIELD_MODE_TESTS: the mode of a / b on field elements.
FieldDivMode(mode_a, mode_b) ==
    IF mode_a = "Constant" /\ mode_b = "Constant" THEN "Constant"
    ELSE IF mode_a = "Public" /\ mode_b = "Constant" THEN "Public"
    ELSE "Private"

\* The modes the quotient of two field elements may have: the table for the
\* operands it is asserted on (2field and 1field); for other operands the
\* sources fix only that two Constants give a Constant.
FieldDivModes(a, b) ==
    IF a.value = 2 /\ b.value = 1 THEN {FieldDivMode(a.mode, b.mode)}
    ELSE DivCheckedModes(a.mode, b.mode)

\* The match without the fallback for integers of different types.
DivMatch_mixed_types(a, b, mode) ==
    IF a.kind = "field" /\ b.kind = "field"
    THEN Return(LiteralField(FieldDiv(a.value, b.value), mode))
    ELSE IF a.kind = "integer" /\ b.kind = "integer"
    THEN DivChecked(a, b, mode)
    ELSE Halt(InvalidInstruction("div"))

\* The match of Div::evaluate over the pair of literals; mode is the mode of
\* the result of the operation performed.
DivMatch(a, b, mode) ==
    IF a.kind = "field" /\ b.kind = "field"
    THEN Return(LiteralField(FieldDiv(a.value, b.value), mode))
    ELSE IF a.kind = "integer" /\ b.kind = "integer" /\ a.type = b.type
    THEN DivChecked(a, b, mode)
    ELSE Halt(InvalidInstruction("div"))

\* The destination assigned even when the operation halts.
DivEvaluate_assigns_on_halt(regs, operation, mode) ==
    LET first == regs[operation.first]
        second == regs[operation.second]
    IN  IF first.variant = "Definition" THEN Halted(regs, NotALiteral(first.name))
        ELSE IF second.variant = "Definition"
        THEN Halted(regs, NotALiteral(second.name))
        ELSE LET result == DivMatch(first.literal, second.literal, mode)
             IN  IF result.halted
                 THEN Halted([regs EXCEPT ![operation.destination] = first],
                             result.message)
                 ELSE Assigned(regs, operation.destination, result.literal)

\* Div::evaluate: the operands are loaded, first then second, the pair is
\* matched, and the result is assigned to the destination. A halt leaves
\* the registers as they were.
DivEvaluate(regs, operation, mode) ==
    LET first == regs[operation.first]
        second == regs[operation.second]
    IN  IF first.variant = "Definition" THEN Halted(regs, NotALiteral(first.name))
        ELSE IF second.variant = "Definition"
        THEN Halted(regs, NotALiteral(second.name))
        ELSE LET result == DivMatch(first.literal, second.literal, mode)
             IN  IF result.halted THEN Halted(regs, result.message)
                 ELSE Assigned(regs, operation.destination, result.literal)

\* The value of a list of native bits, least significant first.
RECURSIVE NativeFromBitsLE(_)
NativeFromBitsLE(bits) ==
    IF bits = <<>> THEN 0
    ELSE (IF bits[1] THEN 1 ELSE 0) + 2 * NativeFromBitsLE(Tail(bits))

\* The number of bits of the shift amount that count: log2 of the width.
ShiftBits(type) == BitLength(type.bits) - 1

\* The shift amount taken whole, not reduced to the width.
ShlWrappedValue_unreduced(a, b, type) ==
    LET bits_le == NativeBitsLE(ToPattern(a, type), type.bits)
        shifted == [i \in 1 .. type.bits |-> IF i > b THEN bits_le[i - b] ELSE FALSE]
    IN  FromPattern(NativeFromBitsLE(shifted), type)

\* Integer::shl_wrapped: only the low-order bits of the shift amount are
\* read; the bits of a move up by that many places, false bits come in at
\* the bottom and the bits pushed beyond the width are lost.
ShlWrappedValue(a, b, type) ==
    LET bits_le == NativeBitsLE(ToPattern(a, type), type.bits)
        amount == NativeFromBitsLE(NativeBitsLE(b, ShiftBits(type)))
        shifted == [i \in 1 .. type.bits |->
                       IF i > amount THEN bits_le[i - amount] ELSE FALSE]
    IN  FromPattern(NativeFromBitsLE(shifted), type)

\* SHL_WRAPPED_MODES: the mode of a shl.w b.
ShlWrappedMode(mode_a, mode_b) ==
    IF mode_a = "Constant" /\ mode_b = "Constant" THEN "Constant"
    ELSE IF mode_a = "Public" /\ mode_b = "Constant" THEN "Public"
    ELSE "Private"

\* The modes the shifted integer may have: the table for the operands it is
\* asserted on (1 shifted by W - 1 and by W); for other operands the sources
\* fix only that two Constants give a Constant.
ShlWrappedModes(a, b) ==
    IF a.value = 1 /\ b.value \in {a.type.bits - 1, a.type.bits}
    THEN {ShlWrappedMode(a.mode, b.mode)}
    ELSE DivCheckedModes(a.mode, b.mode)

\* The match with a shift that does not wrap the amount.
ShlWrappedMatch_unreduced(a, b, mode) ==
    IF a.kind = "integer" /\ b.kind = "integer" /\ b.type \in MagnitudeTypes
    THEN Return(LiteralInteger(a.type, ShlWrappedValue_unreduced(a.value, b.value, a.type),
                               mode))
    ELSE Halt(InvalidInstruction("shl.w"))

\* The match of ShlWrapped::evaluate over the pair of literals; mode is the
\* mode of the result of the operation performed.
ShlWrappedMatch(a, b, mode) ==
    IF a.kind = "integer" /\ b.kind = "integer" /\ b.type \in MagnitudeTypes
    THEN Return(LiteralInteger(a.type, ShlWrappedValue(a.value, b.value, a.type), mode))
    ELSE Halt(InvalidInstruction("shl.w"))

\* The second operand loaded before the first.
ShlWrappedEvaluate_second_first(regs, operation, mode) ==
    LET first == regs[operation.first]
        second == regs[operation.second]
    IN  IF second.variant = "Definition" THEN Halted(regs, NotALiteral(second.name))
        ELSE IF first.variant = "Definition"
        THEN Halted(regs, NotALiteral(first.name))
        ELSE LET result == ShlWrappedMatch(first.literal, second.literal, mode)
             IN  IF result.halted THEN Halted(regs, result.message)
                 ELSE Assigned(regs, operation.destination, result.literal)

\* ShlWrapped::evaluate.
ShlWrappedEvaluate(regs, operation, mode) ==
    LET first == regs[operation.first]
        second == regs[operation.second]
    IN  IF first.variant = "Definition" THEN Halted(regs, NotALiteral(first.name))
        ELSE IF second.variant = "Definition"
        THEN Halted(regs, NotALiteral(second.name))
        ELSE LET result == ShlWrappedMatch(first.literal, second.literal, mode)
             IN  IF result.halted THEN Halted(regs, result.message)
                 ELSE Assigned(regs, operation.destination, result.literal)

----------------------------------------------------------------------------
(* The state machine: the test harness drives the gates.                   *)

NoCount == CountIs(0, 0, 0, 0)

Init ==
    /\ circuit = EmptyCircuit
    /\ op = "init"
    /\ args = <<>>
    /\ out = <<>>
    /\ scope = NoCount
    /\ registers = [r \in RegisterNames |-> Unassigned]

\* Circuit::reset: clears the counters, the assignment and the constraints.
\* The registers of an instruction do not outlive its test.
Reset ==
    /\ circuit' = EmptyCircuit
    /\ op' = "reset"
    /\ args' = <<>>
    /\ out' = <<>>
    /\ scope' = NoCount
    /\ registers' = [r \in RegisterNames |-> Unassigned]

\* Boolean::new(mode, false) outside any scope: something allocated earlier.
Allocate ==
    /\ op \in {"init", "reset", "new"}
    /\ EnvSize(circuit) < MaxPrior
    /\ \E mode \in Modes :
          LET b == NewBoolean(circuit, mode, FALSE)
          IN  /\ circuit' = b.env
              /\ op' = "new"
              /\ args' = <<mode>>
              /\ out' = b.out
              /\ scope' = NoCount
              /\ UNCHANGED registers

\* A check starts on a fresh environment or after the allocations above.
CanCheck == op \in {"init", "reset", "new"} /\ EnvSize(circuit) <= MaxPrior

\* The scope opened before the operands are built: they are counted too.
CheckTernary_counts_operands ==
    /\ CanCheck
    /\ \E cv \in BOOLEAN, cm \in Modes, av \in FieldValues, am \in Modes,
          bv \in FieldValues, bm \in Modes :
          LET condition == NewBoolean(circuit, cm, cv)
              a == NewField(condition.env, am, av)
              b == NewField(a.env, bm, bv)
              candidate == Ternary(b.env, condition.out, a.out, b.out)
          IN  /\ circuit' = candidate.env
              /\ op' = "ternary"
              /\ args' = [condition |-> condition.out, first |-> a.out, second |-> b.out]
              /\ out' = candidate.out
              /\ scope' = ScopeCount(circuit, candidate.env)
              /\ UNCHANGED registers

\* check_ternary: the operands are built, then the gate runs inside a scope.
CheckTernary ==
    /\ CanCheck
    /\ \E cv \in BOOLEAN, cm \in Modes, av \in FieldValues, am \in Modes,
          bv \in FieldValues, bm \in Modes :
          LET condition == NewBoolean(circuit, cm, cv)
              a == NewField(condition.env, am, av)
              b == NewField(a.env, bm, bv)
              candidate == Ternary(b.env, condition.out, a.out, b.out)
          IN  /\ circuit' = candidate.env
              /\ op' = "ternary"
              /\ args' = [condition |-> condition.out, first |-> a.out, second |-> b.out]
              /\ out' = candidate.out
              /\ scope' = ScopeCount(b.env, candidate.env)
              /\ UNCHANGED registers

\* check_bitxor: the operands are built and the XOR runs inside a scope (the
\* reset that ends check_bitxor is the Reset action).
CheckBitXor ==
    /\ CanCheck
    /\ \E type \in IntegerTypes, mode_a \in Modes, mode_b \in Modes :
       \E first \in IntegerValues(type), second \in IntegerValues(type) :
          LET a == NewInteger(circuit, mode_a, first, type)
              b == NewInteger(a.env, mode_b, second, type)
              candidate == BitXor(b.env, a.out, b.out)
          IN  /\ circuit' = candidate.env
              /\ op' = "bitxor"
              /\ args' = [type |-> type, first |-> first, second |-> second,
                          mode_a |-> mode_a, mode_b |-> mode_b,
                          a |-> [bits_le |-> a.out, type |-> type],
                          b |-> [bits_le |-> b.out, type |-> type]]
              /\ out' = [bits_le |-> candidate.out, type |-> type]
              /\ scope' = ScopeCount(b.env, candidate.env)
              /\ UNCHANGED registers

NextBitXor == Reset \/ Allocate \/ CheckBitXor

SpecBitXor == Init /\ [][NextBitXor]_vars

\* check_from_bits_le: the bits are built in one mode, then from_bits_le runs
\* inside a scope. A panic of the gate ends the run in "halt".
CheckFromBitsLE ==
    /\ CanCheck
    /\ \E mode \in Modes, n \in 0 .. (SizeInBits + MaxExcess) :
       \E pattern \in 0 .. (Pow2(n) - 1) :
          LET given_bits == NewBits([env |-> circuit, out |-> <<>>], mode, pattern, n)
              candidate == FromBitsLE(given_bits.env, given_bits.out)
          IN  /\ args' = [mode |-> mode, bits |-> given_bits.out]
              /\ IF FromBitsLEHalts(given_bits.out)
                 THEN /\ circuit' = given_bits.env
                      /\ op' = "halt"
                      /\ out' = <<>>
                      /\ scope' = NoCount
                 ELSE /\ circuit' = candidate.env
                      /\ op' = "from_bits_le"
                      /\ out' = candidate.out
                      /\ scope' = ScopeCount(given_bits.env, candidate.env)
              /\ UNCHANGED registers

\* check_from_bits_be: the same with from_bits_be.
CheckFromBitsBE ==
    /\ CanCheck
    /\ \E mode \in Modes, n \in 0 .. (SizeInBits + MaxExcess) :
       \E pattern \in 0 .. (Pow2(n) - 1) :
          LET given_bits == NewBits([env |-> circuit, out |-> <<>>], mode, pattern, n)
              candidate == FromBitsBE(given_bits.env, given_bits.out)
          IN  /\ args' = [mode |-> mode, bits |-> given_bits.out]
              /\ IF FromBitsLEHalts(Reverse(given_bits.out))
                 THEN /\ circuit' = given_bits.env
                      /\ op' = "halt"
                      /\ out' = <<>>
                      /\ scope' = NoCount
                 ELSE /\ circuit' = candidate.env
                      /\ op' = "from_bits_be"
                      /\ out' = candidate.out
                      /\ scope' = ScopeCount(given_bits.env, candidate.env)
              /\ UNCHANGED registers

NextFromBits == Reset \/ Allocate \/ CheckFromBitsLE \/ CheckFromBitsBE

SpecFromBits == Init /\ [][NextFromBits]_vars

NextTernary == Reset \/ Allocate \/ CheckTernary

SpecTernary == Init /\ [][NextTernary]_vars

\* The tests of the two gates with declared costs and modes.
NextGates == Reset \/ Allocate \/ CheckTernary \/ CheckBitXor

SpecGates == Init /\ [][NextGates]_vars

\* Registers::default() with r0, r1 and r2 defined and the operands assigned.
NewRegisters(first, second) ==
    [r \in RegisterNames |->
        IF r = "r0" THEN first ELSE IF r = "r1" THEN second ELSE Unassigned]

\* "r0 r1 into r2".
BinaryOperation == [first |-> "r0", second |-> "r1", destination |-> "r2"]

\* The literals of the other kinds and the definitions handed to an
\* instruction by its tests.
OtherOperands ==
    {ValueLiteral(LiteralOther(kind, "Constant")) :
        kind \in {"address", "boolean", "group", "scalar", "string"}}
        \cup {ValueDefinition(name) : name \in {"message", "record"}}

FieldOperands == {ValueLiteral(LiteralField(v, m)) : v \in FieldValues, m \in Modes}

\* The integers divided: the extremes of the type, zero, and values whose
\* quotients are exact or not, of either sign.
DivValues(type) ==
    IF type.signed THEN {MinOf(type), -7, -4, -1, 0, 2, MaxOf(type)}
    ELSE {0, 1, 2, 4, 7, MaxOf(type)}

DivOperands ==
    UNION {{ValueLiteral(LiteralInteger(type, v, m)) : v \in DivValues(type), m \in Modes} :
             type \in LiteralIntegerTypes}
        \cup FieldOperands \cup OtherOperands

IsIntegerValue(value) == value.variant = "Literal" /\ value.literal.kind = "integer"

IsFieldValue(value) == value.variant = "Literal" /\ value.literal.kind = "field"

\* A test starts from a fresh process.
CanEvaluate == op \in {"init", "reset"}

\* The tests of div: the operands are assigned to r0 and r1 of fresh
\* registers and "div r0 r1 into r2" is evaluated.
CheckDiv ==
    /\ CanEvaluate
    /\ \E first \in DivOperands, second \in DivOperands :
          /\ IsFieldValue(second) => HasInverse(second.literal.value)
          /\ \E mode \in IF IsIntegerValue(first) /\ IsIntegerValue(second)
                          THEN DivCheckedModes(first.literal.mode, second.literal.mode)
                          ELSE IF IsFieldValue(first) /\ IsFieldValue(second)
                          THEN FieldDivModes(first.literal, second.literal)
                          ELSE {"Private"} :
                LET outcome == DivEvaluate(NewRegisters(first, second), BinaryOperation, mode)
                IN  /\ registers' = outcome.registers
                    /\ op' = "div"
                    /\ args' = [first |-> first, second |-> second]
                    /\ out' = [halted |-> outcome.halted, message |-> outcome.message]
                    /\ scope' = NoCount
                    /\ UNCHANGED circuit

\* The integers shifted and the shift amounts: around the width of each type
\* and beyond it.
ShlValues(type) == {MinOf(type), 0, 1, 5, MaxOf(type)}

ShiftValues(type) ==
    {0, 1, ByteBits - 1, ByteBits, ByteBits + 1, 2 * ByteBits - 1, 2 * ByteBits,
     2 * ByteBits + 1, Pow2(ByteBits) - 1}
        \cup (IF type.bits > ByteBits THEN {Pow2(ByteBits) + ByteBits} ELSE {})

ShlOperands ==
    UNION {{ValueLiteral(LiteralInteger(type, v, m)) : v \in ShlValues(type), m \in Modes} :
             type \in LiteralIntegerTypes}
        \cup {ValueLiteral(LiteralField(1, "Constant"))} \cup OtherOperands

\* Integer types that are not shift amounts: a signed one and u64 (a label:
\* only its small values are used).
OtherShiftTypes ==
    {[signed |-> TRUE, bits |-> ByteBits], [signed |-> FALSE, bits |-> 8 * ByteBits]}

ShiftOperands ==
    UNION {{ValueLiteral(LiteralInteger(type, v, m)) : v \in ShiftValues(type), m \in Modes} :
             type \in MagnitudeTypes}
        \cup {ValueLiteral(LiteralInteger(type, 1, "Constant")) : type \in OtherShiftTypes}
        \cup OtherOperands

\* The tests of shl.w: "shl.w r0 r1 into r2" on fresh registers.
CheckShlWrapped ==
    /\ CanEvaluate
    /\ \E first \in ShlOperands, second \in ShiftOperands :
       \E mode \in IF IsIntegerValue(first) /\ IsIntegerValue(second)
                    THEN ShlWrappedModes(first.literal, second.literal)
                    ELSE {"Private"} :
          LET outcome == ShlWrappedEvaluate(NewRegisters(first, second), BinaryOperation,
                                            mode)
          IN  /\ registers' = outcome.registers
              /\ op' = "shl.w"
              /\ args' = [first |-> first, second |-> second]
              /\ out' = [halted |-> outcome.halted, message |-> outcome.message]
              /\ scope' = NoCount
              /\ UNCHANGED circuit

NextInstructions == Reset \/ CheckDiv \/ CheckShlWrapped

SpecInstructions == Init /\ [][NextInstructions]_vars

\* The descriptors an output-mode oracle may be handed for the circuits
\* given: the Constant variant carrying a circuit, the variants Public and
\* Private reporting their own mode, and a descriptor that reports mode
\* Constant without being the Constant variant.
CircuitTypes(circuits) ==
    {[variant |-> "Constant", mode |-> "Constant", circuit |-> c] : c \in circuits}
        \cup {[variant |-> m, mode |-> m, circuit |-> <<>>] : m \in {"Public", "Private"}}
        \cup {[variant |-> m, mode |-> "Constant", circuit |-> <<>>] :
                 m \in {"Public", "Private"}}

\* The Constant integers of a type given to the oracle of XOR.
ConstantIntegers(type) ==
    {[bits_le |-> NewInteger(EmptyCircuit, "Constant", v, type).out, type |-> type] :
        v \in {0, 1, MaxOf(type)}}

\* OutputMode::output_mode of ternary applied to a case: a pure function of
\* the descriptor of the condition and the modes of the branches.
CheckTernaryOutputMode ==
    /\ op \in {"init", "reset"}
    /\ \E condition \in CircuitTypes({BooleanConstant(b) : b \in BOOLEAN}),
          first \in Modes, second \in Modes :
          /\ op' = "ternary.output_mode"
          /\ args' = <<condition, first, second>>
          /\ out' = TernaryOutputMode(<<condition, first, second>>)
          /\ scope' = NoCount
          /\ UNCHANGED <<circuit, registers>>

\* OutputMode::output_mode of XOR applied to a pair of descriptors.
CheckBitXorOutputMode ==
    /\ op \in {"init", "reset"}
    /\ \E type \in IntegerTypes :
       \E a \in CircuitTypes(ConstantIntegers(type)),
          b \in CircuitTypes(ConstantIntegers(type)) :
          /\ op' = "bitxor.output_mode"
          /\ args' = <<a, b>>
          /\ out' = BitXorOutputMode(<<a, b>>)
          /\ scope' = NoCount
          /\ UNCHANGED <<circuit, registers>>

NextOutputMode == Reset \/ CheckTernaryOutputMode \/ CheckBitXorOutputMode

SpecOutputMode == Init /\ [][NextOutputMode]_vars

\* Every operation of the harness.
Next ==
    \/ Reset \/ Allocate \/ CheckTernary \/ CheckBitXor \/ CheckFromBitsLE
    \/ CheckFromBitsBE \/ CheckDiv \/ CheckShlWrapped
    \/ CheckTernaryOutputMode \/ CheckBitXorOutputMode

Spec == Init /\ [][Next]_vars


----------------------------------------------------------------------------
(* Claims about the ternary gate.                                         *)

IsTernary == op = "ternary"

\* The mode triple and the descriptor triple check_ternary hands to the oracles.
TernaryModes == <<EjectMode(args.condition), EjectMode(args.first), EjectMode(args.second)>>

TernaryCase ==
    <<CircuitTypeFrom(args.condition, EjectMode(args.condition)),
      EjectMode(args.first), EjectMode(args.second)>>

TernarySelected == IF IsTrue(args.condition) THEN args.first ELSE args.second

\* The general case of the gate ran: a witness was allocated and constrained.
TernaryGeneralCase ==
    /\ IsTernary
    /\ ~IsConstant(args.condition)
    /\ ~(IsConstant(args.first) /\ IsConstant(args.second))

\* C1: for every condition, every pair of field values and every combination
\* of modes, the value ejected from ternary(c, a, b) is a when c is true and b
\* when c is false (and it is the value of the result under the assignment).
C1_TernaryValue ==
    IsTernary =>
        /\ EjectValue(out) = EjectValue(TernarySelected)
        /\ Eval(out, circuit.public, circuit.private) = EjectValue(TernarySelected)

C1_Witness ==
    /\ IsTernary
    /\ EjectMode(args.condition) = "Private"
    /\ ~IsTrue(args.condition)
    /\ EjectMode(args.first) = "Public"
    /\ EjectValue(args.first) # EjectValue(args.second)
    /\ EjectValue(out) = EjectValue(args.second)

\* The constraint the general case appended, with the witness wire set to w.
TernaryConstraintAccepts(w) ==
    ConstraintHolds(circuit.constraints[Len(circuit.constraints)],
                    circuit.public,
                    [circuit.private EXCEPT ![Len(circuit.private)] = w])

\* C2: in the general case with first # second, the constraint
\* condition * (first - second) = w - second is satisfied by exactly one w:
\* first when the condition is 1, second when it is 0; the dishonest choice
\* among {first, second} violates it.
C2_TernarySound ==
    (TernaryGeneralCase /\ EjectValue(args.first) # EjectValue(args.second)) =>
        /\ \A w \in FieldValues :
              TernaryConstraintAccepts(w) <=> (w = EjectValue(TernarySelected))
        /\ IsTrue(args.condition) =>
              (TernaryConstraintAccepts(EjectValue(args.first))
               /\ ~TernaryConstraintAccepts(EjectValue(args.second)))
        /\ ~IsTrue(args.condition) =>
              (TernaryConstraintAccepts(EjectValue(args.second))
               /\ ~TernaryConstraintAccepts(EjectValue(args.first)))

C2_Witness ==
    /\ TernaryGeneralCase
    /\ EjectValue(args.first) # EjectValue(args.second)
    /\ ~IsTrue(args.condition)
    /\ ~TernaryConstraintAccepts(EjectValue(args.first))
    /\ TernaryConstraintAccepts(EjectValue(args.second))

\* C3: with a Constant condition the gate adds no constant, no public wire, no
\* private wire and no constraint, whatever the modes of the branches, and
\* the result is the selected branch itself.
C3_ConstantConditionFree ==
    (IsTernary /\ IsConstant(args.condition)) =>
        /\ scope = CountIs(0, 0, 0, 0)
        /\ TernaryCount(TernaryModes) = CountIs(0, 0, 0, 0)
        /\ out = TernarySelected

C3_Witness ==
    /\ IsTernary
    /\ IsConstant(args.condition)
    /\ EjectMode(args.first) = "Public"
    /\ EjectMode(args.second) = "Private"
    /\ scope = CountIs(0, 0, 0, 0)

\* C4 as stated: with a condition that is not Constant the gate adds
\* (0,0,1,1) for every combination of branch modes.
C4_Original ==
    (IsTernary /\ ~IsConstant(args.condition)) => scope = CountIs(0, 0, 1, 1)

\* C4 amended: with a condition that is not Constant the gate adds (0,0,1,1)
\* when at least one branch is not Constant, and nothing at all when both
\* branches are Constant; the declared count says the same.
C4_NonConstantConditionCost ==
    (IsTernary /\ ~IsConstant(args.condition)) =>
        /\ scope = (IF IsConstant(args.first) /\ IsConstant(args.second)
                    THEN CountIs(0, 0, 0, 0) ELSE CountIs(0, 0, 1, 1))
        /\ TernaryCount(TernaryModes) = scope

C4_Witness ==
    /\ IsTernary
    /\ EjectMode(args.condition) = "Public"
    /\ IsConstant(args.first) /\ IsConstant(args.second)
    /\ scope = CountIs(0, 0, 0, 0)

\* The output mode rule as C5 states it.
C5_ClaimedMode ==
    IF IsConstant(args.condition) /\ IsConstant(TernarySelected) THEN "Constant"
    ELSE IF IsConstant(args.condition) /\ EjectMode(args.first) = EjectMode(args.second)
    THEN EjectMode(args.first)
    ELSE "Private"

\* C5 as stated: the output mode is Constant for a Constant condition that
\* selects a Constant branch, X for a Constant condition with both branches of
\* mode X, and Private in every other case.
C5_Original ==
    IsTernary =>
        /\ TernaryOutputMode(TernaryCase) = C5_ClaimedMode
        /\ (IsConstant(args.condition) \/ TernaryGeneralCase) => EjectMode(out) = C5_ClaimedMode

\* C5 amended: the output mode is the mode of the selected branch when the
\* condition is Constant, and Private when the condition is Public or Private;
\* the returned value has that mode whenever the condition is Constant or a
\* branch is not Constant.
C5_OutputMode ==
    IsTernary =>
        /\ TernaryOutputMode(TernaryCase) =
              (IF IsConstant(args.condition) THEN EjectMode(TernarySelected) ELSE "Private")
        /\ (IsConstant(args.condition) \/ TernaryGeneralCase) =>
              EjectMode(out) = TernaryOutputMode(TernaryCase)

C5_Witness ==
    /\ IsTernary
    /\ IsConstant(args.condition) /\ IsTrue(args.condition)
    /\ EjectMode(args.first) = "Public"
    /\ EjectMode(args.second) = "Private"
    /\ EjectMode(out) = "Public"
    /\ TernaryOutputMode(TernaryCase) = "Public"

----------------------------------------------------------------------------
(* Claims about the integer XOR.                                          *)

IsBitXor == op = "bitxor"

\* The mode pair and the descriptor pair check_bitxor hands to the oracles.
BitXorModes == <<args.mode_a, args.mode_b>>

BitXorCase ==
    <<CircuitTypeFrom(args.a, EjectModeOfBits(args.a.bits_le)),
      CircuitTypeFrom(args.b, EjectModeOfBits(args.b.bits_le))>>

BitXorValue == EjectInteger(out.bits_le, out.type)

\* The all-ones value of a type: -1 when signed, MAX when unsigned.
AllOnes(type) == IF type.signed THEN -1 ELSE MaxOf(type)

\* C7: for every width and signedness, every pair of values and every pair of
\* modes, the value ejected from a ^ b is the native a ^ b; the result has as
\* many bits as the operands and bit i is bit i of a XOR bit i of b.
C7_BitXorValue ==
    IsBitXor =>
        /\ BitXorValue = NativeXor(args.first, args.second, args.type)
        /\ Len(out.bits_le) = args.type.bits
        /\ Len(args.a.bits_le) = args.type.bits
        /\ \A i \in 1 .. args.type.bits :
              EjectValue(out.bits_le[i]) =
                 (EjectValue(args.a.bits_le[i]) + EjectValue(args.b.bits_le[i])) % 2

C7_Witness ==
    /\ IsBitXor
    /\ args.type = [signed |-> TRUE, bits |-> ByteBits]
    /\ args.first = -128 /\ args.second = 5
    /\ args.mode_a = "Public" /\ args.mode_b = "Private"
    /\ BitXorValue = -123

\* C8: x ^ 0 = x and x ^ all-ones = !x for every x and every pair of modes,
\* in both operand orders; for 8-bit values 0x00 ^ 0xFF = 0xFF.
C8_BitXorIdentities ==
    IsBitXor =>
        /\ args.second = 0 => BitXorValue = args.first
        /\ args.first = 0 => BitXorValue = args.second
        /\ args.second = AllOnes(args.type) => BitXorValue = NativeNot(args.first, args.type)
        /\ args.first = AllOnes(args.type) => BitXorValue = NativeNot(args.second, args.type)
        /\ (args.type = [signed |-> FALSE, bits |-> ByteBits]
            /\ args.first = 0 /\ args.second = 255) => BitXorValue = 255

C8_Witness ==
    /\ IsBitXor
    /\ args.type = [signed |-> FALSE, bits |-> ByteBits]
    /\ args.first = 0 /\ args.second = 255
    /\ args.mode_a = "Private" /\ args.mode_b = "Constant"
    /\ BitXorValue = 255

\* One operand is a Constant and the other is Public or Private.
BitXorOneConstant ==
    /\ IsBitXor
    /\ (args.mode_a = "Constant") # (args.mode_b = "Constant")

BitXorConstantValue == IF args.mode_a = "Constant" THEN args.first ELSE args.second

BitXorOtherMode == IF args.mode_a = "Constant" THEN args.mode_b ELSE args.mode_a

\* C9: when one operand is the Constant zero and the other has mode M (Public
\* or Private), the XOR adds no wire and no constraint and the output mode
\* is M, whichever side the constant is on.
C9_ZeroConstantFree ==
    (BitXorOneConstant /\ BitXorConstantValue = 0) =>
        /\ scope = CountIs(0, 0, 0, 0)
        /\ BitXorCount(BitXorModes, args.type) = CountIs(0, 0, 0, 0)
        /\ BitXorOutputMode(BitXorCase) = BitXorOtherMode
        /\ EjectModeOfBits(out.bits_le) = BitXorOtherMode

C9_Witness ==
    /\ BitXorOneConstant
    /\ args.mode_b = "Constant" /\ args.second = 0
    /\ args.mode_a = "Public" /\ args.first # 0
    /\ EjectModeOfBits(out.bits_le) = "Public"
    /\ scope = CountIs(0, 0, 0, 0)

\* C10 as stated: when one operand is a nonzero Constant and the other is
\* Public or Private, the output mode is Private and the XOR adds BITS
\* private wires and BITS constraints.
C10_Original ==
    (BitXorOneConstant /\ BitXorConstantValue # 0) =>
        /\ BitXorOutputMode(BitXorCase) = "Private"
        /\ EjectModeOfBits(out.bits_le) = "Private"
        /\ scope = CountIs(0, 0, args.type.bits, args.type.bits)
        /\ BitXorCount(BitXorModes, args.type) = CountIs(0, 0, args.type.bits, args.type.bits)

\* C10 amended: when one operand is a nonzero Constant and the other is
\* Public or Private, the output mode is Private and the XOR adds nothing:
\* the declared and the measured cost are (0,0,0,0).
C10_NonzeroConstant ==
    (BitXorOneConstant /\ BitXorConstantValue # 0) =>
        /\ BitXorOutputMode(BitXorCase) = "Private"
        /\ EjectModeOfBits(out.bits_le) = "Private"
        /\ BitXorCount(BitXorModes, args.type) = CountIs(0, 0, 0, 0)
        /\ scope = CountIs(0, 0, 0, 0)

C10_Witness ==
    /\ BitXorOneConstant
    /\ args.type.bits = ByteBits
    /\ args.mode_a = "Constant" /\ args.first = 5
    /\ args.mode_b = "Private"
    /\ EjectModeOfBits(out.bits_le) = "Private"
    /\ scope = CountIs(0, 0, 0, 0)

\* Neither operand is a Constant.
BitXorNoConstant ==
    /\ IsBitXor
    /\ args.mode_a # "Constant" /\ args.mode_b # "Constant"

\* C11: when both operands are Public or Private, whatever their values
\* (zero and equal operands included), the output mode is Private and the XOR
\* adds exactly BITS private wires and BITS constraints, no constant and no
\* public wire; the declared cost and mode say the same.
C11_NoConstantCost ==
    BitXorNoConstant =>
        /\ BitXorOutputMode(BitXorCase) = "Private"
        /\ EjectModeOfBits(out.bits_le) = "Private"
        /\ scope = CountIs(0, 0, args.type.bits, args.type.bits)
        /\ BitXorCount(BitXorModes, args.type) = CountIs(0, 0, args.type.bits, args.type.bits)

C11_Witness ==
    /\ BitXorNoConstant
    /\ args.type.bits = ByteBits
    /\ args.mode_a = "Public" /\ args.mode_b = "Public"
    /\ args.first = 0 /\ args.second = 0
    /\ EjectModeOfBits(out.bits_le) = "Private"
    /\ scope = CountIs(0, 0, ByteBits, ByteBits)

----------------------------------------------------------------------------
(* Claims across the gates.                                               *)

IsFromBitsLE == op = "from_bits_le"

\* C6: constant folding. For ternary, integer XOR and Scalar::from_bits_le
\* (any number of bits, excess bits and the range check included), when every
\* input is Constant the gate allocates no constant, no public and no private
\* wire, adds no constraint, and its result has mode Constant.
C6_ConstantFolding ==
    /\ (IsTernary /\ IsConstant(args.condition)
          /\ IsConstant(args.first) /\ IsConstant(args.second)) =>
          /\ scope = CountIs(0, 0, 0, 0)
          /\ TernaryCount(TernaryModes) = CountIs(0, 0, 0, 0)
          /\ EjectMode(out) = "Constant"
          /\ TernaryOutputMode(TernaryCase) = "Constant"
    /\ (IsBitXor /\ args.mode_a = "Constant" /\ args.mode_b = "Constant") =>
          /\ scope = CountIs(0, 0, 0, 0)
          /\ BitXorCount(BitXorModes, args.type) = CountIs(0, 0, 0, 0)
          /\ EjectModeOfBits(out.bits_le) = "Constant"
          /\ BitXorOutputMode(BitXorCase) = "Constant"
    /\ (IsFromBitsLE /\ args.mode = "Constant") =>
          /\ scope = CountIs(0, 0, 0, 0)
          /\ EjectModeOfBits(out.bits_le) = "Constant"

C6_Witness ==
    /\ IsFromBitsLE
    /\ args.mode = "Constant"
    /\ Len(args.bits) = SizeInBits + MaxExcess
    /\ scope = CountIs(0, 0, 0, 0)
    /\ EjectModeOfBits(out.bits_le) = "Constant"

----------------------------------------------------------------------------
(* Claims about Scalar::from_bits_le and from_bits_be.                     *)

IsFromBitsBE == op = "from_bits_be"

IsFromBits == IsFromBitsLE \/ IsFromBitsBE

\* The bits handed to the gate, least significant first.
GivenBitsLE == IF IsFromBitsBE THEN Reverse(args.bits) ELSE args.bits

\* The native value of the bits i .. j of a list of Booleans.
ValueOfBits(bits_le, i, j) ==
    PatternOfBits([k \in 1 .. (j + 1 - i) |-> bits_le[i + k - 1]])

\* The value of the first size_in_bits given bits, and of the excess bits.
GivenValue == ValueOfBits(GivenBitsLE, 1, SizeInBits)

ExcessValue == ValueOfBits(GivenBitsLE, SizeInBits + 1, Len(GivenBitsLE))

\* Scalar::eject_value of the result.
ScalarValue == PatternOfBits(out.bits_le)

\* The given bits are to_bits of a scalar field element, followed (le) or
\* preceded (be) by any number of false bits.
IsPaddedElement ==
    /\ IsFromBits
    /\ Len(args.bits) >= SizeInBits
    /\ GivenValue < ScalarModulus
    /\ ExcessValue = 0

\* C12: for every scalar field element v and every mode, from_bits_le of
\* to_bits_le(v), alone or followed by any number of false bits, ejects v and
\* leaves a satisfiable constraint system; likewise from_bits_be of
\* to_bits_be(v) preceded by any number of false bits.
C12_RoundTrip ==
    IsPaddedElement =>
        /\ ScalarValue = GivenValue
        /\ Len(out.bits_le) = SizeInBits
        /\ IsSatisfied(circuit)

C12_Witness ==
    /\ IsFromBitsBE
    /\ args.mode = "Private"
    /\ Len(args.bits) = SizeInBits + MaxExcess
    /\ GivenValue = ModulusMinusOne
    /\ ExcessValue = 0
    /\ ScalarValue = ModulusMinusOne
    /\ IsSatisfied(circuit)

\* The sum of two Counts.
CountAdd(c, d) ==
    CountIs(c.constants + d.constants, c.public + d.public,
            c.private + d.private, c.constraints + d.constraints)

\* The number of excess bits given.
NumExcess == Len(args.bits) - SizeInBits

\* The cost of from_bits_le on the first size_in_bits given bits alone,
\* allocated in the same mode.
UnpaddedCost ==
    LET given_bits == NewBits([env |-> EmptyCircuit, out |-> <<>>],
                              args.mode, GivenValue, SizeInBits)
    IN  ScopeCount(given_bits.env, FromBitsLE(given_bits.env, given_bits.out).env)

SaturatingSub(a, b) == IF a > b THEN a - b ELSE 0

\* C13: relative to the cost on the unpadded full-width bits, i excess false
\* bits (trailing for from_bits_le, leading for from_bits_be) add exactly i
\* constraints and max(i - 1, 0) private wires when the bits are Public or
\* Private, and nothing when the bits are Constant; no constant and no public
\* wire is added.
C13_PaddingCost ==
    IsPaddedElement =>
        scope = CountAdd(UnpaddedCost,
                         IF args.mode = "Constant" THEN CountIs(0, 0, 0, 0)
                         ELSE CountIs(0, 0, SaturatingSub(NumExcess, 1), NumExcess))

C13_Witness ==
    /\ IsPaddedElement
    /\ IsFromBitsLE
    /\ args.mode = "Public"
    /\ NumExcess = MaxExcess
    /\ scope = CountAdd(UnpaddedCost, CountIs(0, 0, MaxExcess - 1, MaxExcess))
    /\ UnpaddedCost.constraints > 0

\* from_bits_le was given more than size_in_bits bits, of any content.
HasExcessBits == IsFromBitsLE /\ NumExcess > 0

\* C14 as stated: in a non-constant mode k excess bits add k private wires
\* and k constraints; in Constant mode they add nothing.
C14_Original ==
    HasExcessBits =>
        scope = CountAdd(UnpaddedCost,
                         IF args.mode = "Constant" THEN CountIs(0, 0, 0, 0)
                         ELSE CountIs(0, 0, NumExcess, NumExcess))

\* C14 amended: in a non-constant mode the check of k >= 1 excess bits,
\* whatever their values, adds k constraints and k - 1 private wires (the
\* first excess bit is OR-ed with a constant and allocates nothing); in
\* Constant mode it adds nothing.
C14_ExcessCost ==
    HasExcessBits =>
        /\ args.mode = "Constant" => scope = UnpaddedCost
        /\ args.mode # "Constant" =>
              /\ scope.private = UnpaddedCost.private + NumExcess - 1
              /\ scope.constraints = UnpaddedCost.constraints + NumExcess
              /\ scope.constants = 0 /\ scope.public = 0

C14_Witness ==
    /\ HasExcessBits
    /\ args.mode = "Private"
    /\ NumExcess = 1
    /\ ExcessValue = 1
    /\ scope.private = UnpaddedCost.private
    /\ scope.constraints = UnpaddedCost.constraints + 1

\* The private wires allocated before the gate ran: the inputs.
InputWires == SubSeq(circuit.private, 1, Len(circuit.private) - scope.private)

\* No assignment of the wires the gate allocated satisfies the constraints,
\* the inputs being what they are.
Unsatisfiable ==
    \A w \in [1 .. scope.private -> FieldValues] :
        ~SatisfiedUnder(circuit, circuit.public, InputWires \o w)

\* from_bits_le was given exactly size_in_bits bits, not Constant.
IsFullWidth ==
    /\ IsFromBitsLE
    /\ Len(args.bits) = SizeInBits
    /\ args.mode # "Constant"

\* C15 as stated: every full-width non-constant bit sequence whose value is
\* greater than or equal to modulus - 1 leaves an unsatisfiable system.
C15_Original ==
    (IsFullWidth /\ GivenValue >= ModulusMinusOne) => ~IsSatisfied(circuit)

\* C15 amended: every full-width non-constant bit sequence whose value is
\* greater than modulus - 1 leaves a system no witness satisfies; the value
\* modulus - 1, the largest field element, is accepted and returned.
C15_RangeCheck ==
    /\ (IsFullWidth /\ GivenValue > ModulusMinusOne) =>
          /\ ~IsSatisfied(circuit)
          /\ Unsatisfiable
    /\ (IsFullWidth /\ GivenValue = ModulusMinusOne) =>
          /\ IsSatisfied(circuit)
          /\ ScalarValue = ModulusMinusOne

C15_Witness ==
    /\ IsFullWidth
    /\ args.mode = "Public"
    /\ GivenValue = ModulusMinusOne + 1
    /\ ScalarValue = GivenValue
    /\ Unsatisfiable

\* from_bits_le was given more than size_in_bits bits, not Constant.
HasNonConstantExcess == HasExcessBits /\ args.mode # "Constant"

\* C16: when from_bits_le is given more than size_in_bits non-constant bits,
\* the constraints are satisfiable only if every excess bit is false; if an
\* excess bit is true no witness satisfies them; either way the scalar
\* returned is made of the first size_in_bits bits given, and of them only.
C16_ExcessSuppressed ==
    HasNonConstantExcess =>
        /\ IsSatisfied(circuit) => ExcessValue = 0
        /\ ExcessValue # 0 => Unsatisfiable
        /\ out.bits_le = SubSeq(args.bits, 1, SizeInBits)

C16_Witness ==
    /\ HasNonConstantExcess
    /\ args.mode = "Private"
    /\ NumExcess = MaxExcess
    /\ ExcessValue = Pow2(MaxExcess - 1)
    /\ GivenValue = 1
    /\ ScalarValue = 1
    /\ Unsatisfiable

\* The environment as it was when the scope opened.
BeforeScope ==
    [constants   |-> circuit.constants - scope.constants,
     public      |-> SubSeq(circuit.public, 1, Len(circuit.public) - scope.public),
     private     |-> SubSeq(circuit.private, 1, Len(circuit.private) - scope.private),
     constraints |-> SubSeq(circuit.constraints, 1,
                            Len(circuit.constraints) - scope.constraints)]

\* C17: for every bit sequence, from_bits_be(bits) returns the scalar, adds
\* the constraints and has the cost of from_bits_le on the reversed bits: the
\* last bit given is the least significant bit of the result.
C17_BigEndianIsReversed ==
    IsFromBitsBE =>
        LET le == FromBitsLE(BeforeScope, Reverse(args.bits))
        IN  /\ out = le.out
            /\ circuit = le.env
            /\ scope = ScopeCount(BeforeScope, le.env)
            /\ \A i \in 1 .. SizeInBits :
                  i <= Len(args.bits) => out.bits_le[i] = args.bits[Len(args.bits) + 1 - i]

C17_Witness ==
    /\ IsFromBitsBE
    /\ args.mode = "Public"
    /\ Len(args.bits) = SizeInBits + 1
    /\ Reverse(args.bits) # args.bits
    /\ EjectValue(args.bits[1]) = 0
    /\ EjectValue(args.bits[Len(args.bits)]) = 1
    /\ EjectValue(out.bits_le[1]) = 1
    /\ scope.constraints > 0

----------------------------------------------------------------------------
(* Claims about the instructions.                                          *)

IsDiv == op = "div"

\* div was evaluated on two integer literals of the same type.
IsDivOnIntegers ==
    /\ IsDiv
    /\ IsIntegerValue(args.first) /\ IsIntegerValue(args.second)
    /\ args.first.literal.type = args.second.literal.type

Dividend == args.first.literal.value

Divisor == args.second.literal.value

DivOverflows ==
    /\ args.first.literal.type.signed
    /\ Dividend = MinOf(args.first.literal.type)
    /\ Divisor = -1

\* The destination holds the integer q of the operands' type.
DestinationIs(q) ==
    /\ registers["r2"].variant = "Literal"
    /\ registers["r2"].literal.kind = "integer"
    /\ registers["r2"].literal.type = args.first.literal.type
    /\ registers["r2"].literal.value = q

\* q is the quotient of a by b rounded towards zero: the remainder is
\* smaller than the divisor and has the sign of the dividend.
IsTruncatedQuotient(q, a, b) ==
    LET r == a - q * b
    IN  /\ Abs(r) < Abs(b)
        /\ r = 0 \/ ((r < 0) = (a < 0))

\* C19: div on two integer literals of one type leaves the truncated quotient
\* in the destination (4u8 / 2u8 = 2u8, -4i8 / 2i8 = -2i8); it halts with
\* "Division by zero error" when the divisor is zero and with "Overflow or
\* underflow ..." when the minimum of a signed type is divided by -1, and
\* after either halt the destination is still unassigned.
C19_DivInstruction ==
    IsDivOnIntegers =>
        /\ registers["r0"] = args.first /\ registers["r1"] = args.second
        /\ Divisor = 0 =>
              /\ out.halted /\ out.message = <<"Division by zero error">>
              /\ registers["r2"] = Unassigned
        /\ DivOverflows =>
              /\ out.halted
              /\ out.message =
                    <<"Overflow or underflow on division of two integer constants">>
              /\ registers["r2"] = Unassigned
        /\ (Divisor # 0 /\ ~DivOverflows) =>
              /\ ~out.halted
              /\ \E q \in MinOf(args.first.literal.type) .. MaxOf(args.first.literal.type) :
                    DestinationIs(q) /\ IsTruncatedQuotient(q, Dividend, Divisor)
        /\ (Dividend = 4 /\ Divisor = 2) => DestinationIs(2)
        /\ (Dividend = -4 /\ Divisor = 2) => DestinationIs(-2)

C19_Witness ==
    /\ IsDivOnIntegers
    /\ args.first.literal.type = [signed |-> TRUE, bits |-> ByteBits]
    /\ Dividend = -128 /\ Divisor = -1
    /\ args.first.literal.mode = "Constant" /\ args.second.literal.mode = "Constant"
    /\ out.halted
    /\ registers["r2"] = Unassigned

IsShlWrapped == op = "shl.w"

\* shl.w was evaluated on an integer and a shift amount of type u8, u16 or u32.
IsShlOnIntegers ==
    /\ IsShlWrapped
    /\ IsIntegerValue(args.first) /\ IsIntegerValue(args.second)
    /\ args.second.literal.type \in MagnitudeTypes

ShiftedType == args.first.literal.type

ShiftAmount == args.second.literal.value

\* a * 2^n reduced to the width of the type and read in two's complement.
ShiftedLeft(a, n, type) ==
    FromPattern((ToPattern(a, type) * Pow2(n)) % Pow2(type.bits), type)

\* C20: for every integer type of width W, every value a and every shift
\* amount b of type u8, u16 or u32, shl.w leaves in the destination a shifted
\* left by b mod W and cut to W bits; a shift by W gives a back and 1 shifted
\* by W - 1 has only its top bit set.
C20_ShlWrapped ==
    IsShlOnIntegers =>
        /\ ~out.halted
        /\ DestinationIs(ShiftedLeft(args.first.literal.value,
                                     ShiftAmount % ShiftedType.bits, ShiftedType))
        /\ ShiftAmount = ShiftedType.bits => DestinationIs(args.first.literal.value)
        /\ (args.first.literal.value = 1 /\ ShiftAmount = ShiftedType.bits - 1) =>
              ToPattern(registers["r2"].literal.value, ShiftedType)
                 = Pow2(ShiftedType.bits - 1)

C20_Witness ==
    /\ IsShlOnIntegers
    /\ ShiftedType = [signed |-> TRUE, bits |-> ByteBits]
    /\ args.first.literal.value = 1
    /\ args.second.literal.type.bits = ByteBits
    /\ ShiftAmount = ByteBits
    /\ DestinationIs(1)

\* Both operands of the instruction are literals.
OperandsAreLiterals == args.first.variant = "Literal" /\ args.second.variant = "Literal"

FirstLiteral == args.first.literal

SecondLiteral == args.second.literal

\* The pairs of literal types div is defined on.
DivAccepts(a, b) ==
    \/ a.kind = "field" /\ b.kind = "field"
    \/ a.kind = "integer" /\ b.kind = "integer" /\ a.type = b.type

\* The pairs of literal types shl.w is defined on.
ShlWrappedAccepts(a, b) ==
    /\ a.kind = "integer" /\ b.kind = "integer"
    /\ ~b.type.signed /\ b.type.bits \in {ByteBits, 2 * ByteBits, 4 * ByteBits}

\* The destination holds a literal of the type of the first operand.
DestinationHasTypeOfFirst ==
    /\ registers["r2"].variant = "Literal"
    /\ registers["r2"].literal.kind = FirstLiteral.kind
    /\ FirstLiteral.kind = "integer" => registers["r2"].literal.type = FirstLiteral.type

\* The instruction halted in the fallback of its match and assigned nothing.
HaltedAsInvalid(opcode) ==
    /\ out.halted
    /\ out.message = InvalidInstruction(opcode)
    /\ registers["r2"] = Unassigned

\* C21: div is defined on (field, field) and on two integers of one type,
\* shl.w on an integer and an amount of type u8, u16 or u32; every other pair
\* of literal types halts with "Invalid '<opcode>' instruction" and leaves the
\* destination unassigned, no accepted pair halts with that message, and a
\* result is always of the type of the first operand.
C21_ClosedDispatch ==
    /\ (IsDiv /\ OperandsAreLiterals) =>
          /\ ~DivAccepts(FirstLiteral, SecondLiteral) => HaltedAsInvalid("div")
          /\ DivAccepts(FirstLiteral, SecondLiteral) =>
                out.message # InvalidInstruction("div")
          /\ ~out.halted => DestinationHasTypeOfFirst
    /\ (IsShlWrapped /\ OperandsAreLiterals) =>
          /\ ~ShlWrappedAccepts(FirstLiteral, SecondLiteral) => HaltedAsInvalid("shl.w")
          /\ ShlWrappedAccepts(FirstLiteral, SecondLiteral) =>
                out.message # InvalidInstruction("shl.w")
          /\ ~out.halted => DestinationHasTypeOfFirst

\* div on an i8 and a u8 of the same width halted in the fallback.
C21_Witness ==
    /\ IsDiv /\ OperandsAreLiterals
    /\ FirstLiteral.kind = "integer" /\ SecondLiteral.kind = "integer"
    /\ FirstLiteral.type = [signed |-> TRUE, bits |-> ByteBits]
    /\ SecondLiteral.type = [signed |-> FALSE, bits |-> ByteBits]
    /\ SecondLiteral.value = 2
    /\ HaltedAsInvalid("div")

\* An operand register of the instruction holds a definition.
HasDefinitionOperand ==
    args.first.variant = "Definition" \/ args.second.variant = "Definition"

\* The definition met first when the operands are loaded in order.
FirstDefinition ==
    IF args.first.variant = "Definition" THEN args.first.name ELSE args.second.name

\* C22: when an operand register of div or shl.w holds a definition, evaluate
\* halts with "<name> is not a literal", naming the first operand if it is a
\* definition and the second otherwise, whatever the other operand is (a zero
\* divisor, a literal of an unsupported type); the destination stays
\* unassigned and the operand registers are as they were.
C22_DefinitionHalts ==
    ((IsDiv \/ IsShlWrapped) /\ HasDefinitionOperand) =>
        /\ out.halted
        /\ out.message = NotALiteral(FirstDefinition)
        /\ registers["r2"] = Unassigned
        /\ registers["r0"] = args.first /\ registers["r1"] = args.second

\* shl.w on two definitions halted on the first.
C22_Witness ==
    /\ IsShlWrapped
    /\ args.first = ValueDefinition("message")
    /\ args.second = ValueDefinition("record")
    /\ out.halted
    /\ out.message = NotALiteral("message")
    /\ registers["r2"] = Unassigned

----------------------------------------------------------------------------
(* Claims about the declared costs and modes of the gates.                 *)

\* C23: for every mode triple of ternary, every mode pair of XOR and every
\* operand value, the count declared by Metrics::count is the number of
\* constants, public wires, private wires and constraints the gate added
\* inside its scope; ternary with a condition that is not Constant and two
\* Constant branches, and XOR with a Constant operand of any value, add
\* nothing.
C23_DeclaredIsMeasured ==
    /\ IsTernary =>
          /\ TernaryCount(TernaryModes) = scope
          /\ (~IsConstant(args.condition) /\ IsConstant(args.first)
                /\ IsConstant(args.second)) => scope = CountIs(0, 0, 0, 0)
    /\ IsBitXor =>
          /\ BitXorCount(BitXorModes, args.type) = scope
          /\ (args.mode_a = "Constant" \/ args.mode_b = "Constant") =>
                scope = CountIs(0, 0, 0, 0)

\* ternary of a Private condition over the constants 1 and 0 measured and
\* declared nothing.
C23_Witness ==
    /\ IsTernary
    /\ TernaryModes = <<"Private", "Constant", "Constant">>
    /\ args.first.value = 1 /\ args.second.value = 0
    /\ TernaryCount(TernaryModes) = CountIs(0, 0, 0, 0)
    /\ scope = CountIs(0, 0, 0, 0)

\* C24: for every condition, first and second, the value returned by ternary
\* has the mode OutputMode::output_mode declares: the mode of the selected
\* branch when the condition is Constant and Private when the condition is
\* Public or Private, two Constant branches of any value included.
C24_DeclaredModeIsActual ==
    IsTernary =>
        /\ TernaryOutputMode(TernaryCase) =
              (IF IsConstant(args.condition) THEN EjectMode(TernarySelected) ELSE "Private")
        /\ EjectMode(out) = TernaryOutputMode(TernaryCase)

\* ternary of a Public condition over the constants 1 and 0 returned the
\* condition itself, a Public value, where Private is declared.
C24_PublicResult ==
    /\ IsTernary
    /\ TernaryModes = <<"Public", "Constant", "Constant">>
    /\ args.first.value = 1 /\ args.second.value = 0
    /\ TernaryOutputMode(TernaryCase) = "Private"
    /\ out = args.condition
    /\ EjectMode(out) = "Public"

\* The mode of the result as C25 gives it for a pair of operand modes.
C25_ClaimedMode ==
    IF FirstLiteral.mode = "Constant" /\ SecondLiteral.mode = "Constant" THEN "Constant"
    ELSE IF FirstLiteral.mode = "Public" /\ SecondLiteral.mode = "Constant" THEN "Public"
    ELSE "Private"

\* div ran on the field elements its mode table is asserted on.
IsDivOnTableOperands ==
    /\ IsDiv
    /\ IsFieldValue(args.first) /\ IsFieldValue(args.second)
    /\ FirstLiteral.value = 2 /\ SecondLiteral.value = 1

\* shl.w ran on the integers its mode table is asserted on.
IsShlOnTableOperands ==
    /\ IsShlOnIntegers
    /\ FirstLiteral.value = 1
    /\ SecondLiteral.value \in {ShiftedType.bits - 1, ShiftedType.bits}

----------------------------------------------------------------------------
(* Claims about the range check of from_bits_le.                           *)

\* from_bits_le was given exactly size_in_bits bits, of any mode.
IsCandidate == IsFromBitsLE /\ Len(args.bits) = SizeInBits

\* The fold of the comparison chain over the candidate bits, run again on
\* the environment the scope opened on.
ComparisonChain ==
    FoldIsLess([env |-> BeforeScope, out |-> BooleanConstant(FALSE)],
               SanitizedBits(args.bits), 1)

\* C26: for every sequence of size_in_bits bits, the flag folded over the
\* pairs (bit of modulus - 1, candidate bit), least significant first, is true
\* exactly when the candidate is greater than modulus - 1; from_bits_le
\* asserts its negation, so with non-constant bits the constraints are
\* satisfied when the candidate is at most modulus - 1 (modulus - 1 included)
\* and no witness satisfies them when it is greater.
C26_ComparisonChain ==
    IsCandidate =>
        /\ IsTrue(ComparisonChain.out) <=> (GivenValue > ModulusMinusOne)
        /\ circuit = AssertTrue(ComparisonChain.env, Not(ComparisonChain.out))
        /\ args.mode # "Constant" =>
              /\ GivenValue <= ModulusMinusOne => IsSatisfied(circuit)
              /\ GivenValue > ModulusMinusOne => Unsatisfiable

\* The Private bits of modulus - 1: the flag is false and the system holds.
C26_Witness ==
    /\ IsCandidate
    /\ args.mode = "Private"
    /\ GivenValue = ModulusMinusOne
    /\ ~IsTrue(ComparisonChain.out)
    /\ scope.constraints > 0
    /\ IsSatisfied(circuit)

\* The last constraint added is an assertion: x * 1 = 1.
EndsWithAssertion ==
    /\ scope.constraints > 0
    /\ circuit.constraints[Len(circuit.constraints)].b = LCConstant(1)
    /\ circuit.constraints[Len(circuit.constraints)].c = LCConstant(1)

\* C27: the range check of from_bits_le runs exactly when more than
\* size_in_data_bits bits are given, which is when size_in_bits or more are
\* given. With at most size_in_data_bits bits, of any mode and content,
\* nothing is added (no constant, no wire, no constraint), the system stays
\* satisfied and the scalar is the value of the bits; with more, non-constant
\* bits end in the assertion of the comparison and a value above modulus - 1
\* is rejected.
C27_RangeCheckApplied ==
    IsFromBitsLE =>
        /\ (Len(args.bits) > SizeInDataBits) <=> (Len(args.bits) >= SizeInBits)
        /\ Len(args.bits) <= SizeInDataBits =>
              /\ scope = CountIs(0, 0, 0, 0)
              /\ circuit = BeforeScope
              /\ IsSatisfied(circuit)
              /\ ScalarValue = PatternOfBits(args.bits)
        /\ (Len(args.bits) > SizeInDataBits /\ args.mode # "Constant") =>
              /\ EndsWithAssertion
              /\ GivenValue > ModulusMinusOne => Unsatisfiable

\* size_in_data_bits Public bits, all true: nothing added.
C27_Witness ==
    /\ IsFromBitsLE
    /\ args.mode = "Public"
    /\ Len(args.bits) = SizeInDataBits
    /\ PatternOfBits(args.bits) = Pow2(SizeInDataBits) - 1
    /\ ScalarValue = Pow2(SizeInDataBits) - 1
    /\ scope = CountIs(0, 0, 0, 0)
    /\ IsSatisfied(circuit)

----------------------------------------------------------------------------
(* Claims about the output-mode oracles.                                   *)

IsTernaryOutputMode == op = "ternary.output_mode"

IsBitXorOutputMode == op = "bitxor.output_mode"

\* The descriptor reports mode Constant without being the Constant variant.
LacksConstant(type) == type.mode = "Constant" /\ type.variant # "Constant"

\* C28: output_mode of ternary halts when the descriptor of the condition
\* reports mode Constant without carrying the circuit; output_mode of XOR
\* halts when exactly one operand reports mode Constant and that descriptor
\* does not carry the circuit. Two XOR operands of mode Constant give
\* Constant whatever the descriptors carry, and when no descriptor read
\* reports mode Constant a mode is returned. The descriptors built by the
\* tests from the operands never make an oracle halt.
C28_OracleHalts ==
    /\ IsTernaryOutputMode =>
          /\ LacksConstant(args[1]) => out = "halt"
          /\ ~LacksConstant(args[1]) => out \in Modes
          /\ args[1].mode # "Constant" => out = "Private"
    /\ IsBitXorOutputMode =>
          /\ (args[1].mode = "Constant" /\ args[2].mode = "Constant") => out = "Constant"
          /\ (LacksConstant(args[1]) /\ args[2].mode # "Constant") => out = "halt"
          /\ (args[1].mode # "Constant" /\ LacksConstant(args[2])) => out = "halt"
          /\ (~LacksConstant(args[1]) /\ ~LacksConstant(args[2])) => out \in Modes
          /\ (args[1].mode # "Constant" /\ args[2].mode # "Constant") => out = "Private"
    /\ IsTernary => TernaryOutputMode(TernaryCase) \in Modes
    /\ IsBitXor => BitXorOutputMode(BitXorCase) \in Modes

\* The oracle of XOR halted on a Private operand and a descriptor of mode
\* Constant that carries no circuit.
C28_Witness ==
    /\ IsBitXorOutputMode
    /\ args[1] = [variant |-> "Private", mode |-> "Private", circuit |-> <<>>]
    /\ LacksConstant(args[2])
    /\ out = "halt"

----------------------------------------------------------------------------
(* Claims about the symmetry of XOR.                                       *)

\* b ^ a: the XOR of the same two operands in the other order, run on the
\* environment the scope opened on.
BitXorCommuted == BitXor(BeforeScope, args.b.bits_le, args.a.bits_le)

\* C29: for every pair of values and every pair of modes, b ^ a ejects the
\* value a ^ b ejects, and the declared count and the declared output mode
\* of (b, a) are those of (a, b); the measured cost is the same as well.
C29_BitXorSymmetric ==
    IsBitXor =>
        /\ EjectInteger(BitXorCommuted.out, args.type) = BitXorValue
        /\ BitXorValue = NativeXor(args.second, args.first, args.type)
        /\ BitXorCount(<<args.mode_b, args.mode_a>>, args.type)
              = BitXorCount(BitXorModes, args.type)
        /\ BitXorOutputMode(<<BitXorCase[2], BitXorCase[1]>>) = BitXorOutputMode(BitXorCase)
        /\ ScopeCount(BeforeScope, BitXorCommuted.env) = scope

\* A Public 5 and the Constant zero: Public is declared in either order.
C29_Witness ==
    /\ IsBitXor
    /\ args.mode_a = "Public" /\ args.first = 5
    /\ args.mode_b = "Constant" /\ args.second = 0
    /\ BitXorOutputMode(BitXorCase) = "Public"
    /\ BitXorOutputMode(<<BitXorCase[2], BitXorCase[1]>>) = "Public"
    /\ EjectInteger(BitXorCommuted.out, args.type) = 5

----------------------------------------------------------------------------
(* Claims about the accounting of scopes.                                  *)

\* check_ternary with the same modes and values on an environment that was
\* just reset: the environment the scope opens on and the one it ends on.
TernaryOnFresh ==
    LET condition == NewBoolean(EmptyCircuit, EjectMode(args.condition),
                                IsTrue(args.condition))
        a == NewField(condition.env, EjectMode(args.first), EjectValue(args.first))
        b == NewField(a.env, EjectMode(args.second), EjectValue(args.second))
    IN  [before |-> b.env, after |-> Ternary(b.env, condition.out, a.out, b.out)]

\* check_bitxor with the same type, modes and values after a reset.
BitXorOnFresh ==
    LET a == NewInteger(EmptyCircuit, args.mode_a, args.first, args.type)
        b == NewInteger(a.env, args.mode_b, args.second, args.type)
    IN  [before |-> b.env, after |-> BitXor(b.env, a.out, b.out)]

\* A count of things allocated before the operands of a check were built.
IsEarlier(count) ==
    /\ count.constants >= 0 /\ count.public >= 0 /\ count.private >= 0
    /\ count.constraints >= 0
    /\ count.constants + count.public + count.private <= MaxPrior

\* C30: the count asserted inside a scope is what the body added: it is the
\* count the same body gives on an environment that was just reset, whatever
\* was allocated before and whether or not a reset came before; operands
\* built outside the scope are not counted; the body gives the value it gives
\* on a fresh environment, and the environment holds what was allocated
\* earlier, the operands and what the body added; after reset every counter
\* is zero and there is no constraint.
C30_ScopeIsDelta ==
    /\ op = "reset" =>
          /\ CountOf(circuit) = CountIs(0, 0, 0, 0)
          /\ circuit.constraints = <<>>
    /\ IsTernary =>
          /\ scope = ScopeCount(TernaryOnFresh.before, TernaryOnFresh.after.env)
          /\ scope.constants = 0 /\ scope.public = 0
          /\ EjectValue(out) = EjectValue(TernaryOnFresh.after.out)
          /\ IsEarlier(ScopeCount(TernaryOnFresh.after.env, circuit))
    /\ IsBitXor =>
          /\ scope = ScopeCount(BitXorOnFresh.before, BitXorOnFresh.after.env)
          /\ scope.constants = 0 /\ scope.public = 0
          /\ BitXorValue = EjectInteger(BitXorOnFresh.after.out, args.type)
          /\ IsEarlier(ScopeCount(BitXorOnFresh.after.env, circuit))

\* ternary on three Public operands after an earlier allocation: the scope
\* counts one private wire and one constraint, the environment more.
C30_Witness ==
    /\ IsTernary
    /\ TernaryModes = <<"Public", "Public", "Public">>
    /\ scope = CountIs(0, 0, 1, 1)
    /\ Len(circuit.public) = 4
    /\ CountOf(circuit) # CountOf(TernaryOnFresh.after.env)

----------------------------------------------------------------------------
====
